---------------------------- MODULE Spec2Model ----------------------------
(***************************************************************************)
(* A model of the bit-banged 1-Wire master driver (katyo/onewire).         *)
(*                                                                         *)
(* The driver's functions are operators over a wire context `c`: the log   *)
(* of the BusLine and delay calls made so far, the number of BusLine calls *)
(* made, the GPIO fault the line is going to raise, and the state of the   *)
(* slaves on the bus.  Each returns [c |-> context after, r |-> result].   *)
(* The operations of the state machine apply whole driver functions.       *)
(***************************************************************************)
EXTENDS Integers, Sequences, FiniteSets, TLC

(***************************************************************************)
(* Program constants.                                                      *)
(***************************************************************************)
BYTES == 8
BITS == BYTES * 8
WatchdogPolls == 125
PresenceSamples == 7

MatchRom == 85
SearchRom == 240
SearchRomAlarmed == 236
SkipRom == 204
ReadRom == 51
Convert == 68
ReadScratchpad == 190
ReadStatus == 170
Tm2004_WriteRom == 60
WriteLockSet1 == 209
WriteLockGet1 == 177
WriteLockSet2 == 29
WriteLockGet2 == 30
WriteLockSet3 == 193
Rw1990_WriteRom == 213

(***************************************************************************)
(* Bounds of the model.                                                    *)
(***************************************************************************)
NumRoms == 4
MaxCalls == 6
MaxRise == 1

(***************************************************************************)
(* Results: Ok(v) and Err(e).  The GPIO errors are opaque values; the      *)
(* driver's own errors are WireFault, NoPresence and PortError(e).         *)
(***************************************************************************)
Unit == <<>>
NoErr == <<"none">>
Ok(v) == [ok |-> TRUE, v |-> v, e |-> NoErr]
Err(e) == [ok |-> FALSE, v |-> Unit, e |-> e]

GpioErrors == {<<"E", 1>>, <<"E", 2>>}
WireFault == <<"WireFault">>
NoPresence == <<"NoPresence">>
PortError(e) == <<"PortError", e>>
NotSupport == <<"NotSupport">>
CrcMismatch(computed, crc8) == <<"CrcMismatch", computed, crc8>>

\* `let v = x; F(v)`: x is evaluated once and F applied to its value.
Let(x, F(_)) == CHOOSE y \in {F(v) : v \in {x}} : TRUE

\* impl From<E> for Error<E>: what `?` does to a GPIO error in a function
\* whose error type is Error<E>.
Wrapped(x) == IF x.r.ok THEN x ELSE [x EXCEPT !.r = Err(PortError(x.r.e))]
From(x) == Let(x, LAMBDA v : Wrapped(v))

(***************************************************************************)
(* Bit access into an 8-byte array, bit 0 = least significant bit of       *)
(* byte 0.  Sequences are 1-based, the code's arrays 0-based.              *)
(***************************************************************************)
Pow2(n) == 2 ^ n
BitOf(byte, k) == (byte \div Pow2(k)) % 2

is_bit_set(array, bit) ==
    IF bit \div 8 >= Len(array) THEN FALSE
    ELSE BitOf(array[(bit \div 8) + 1], bit % 8) # 0

set_bit(array, bit) ==
    IF bit \div 8 >= Len(array) THEN array
    ELSE IF is_bit_set(array, bit) THEN array
    ELSE [array EXCEPT ![(bit \div 8) + 1] = @ + Pow2(bit % 8)]

reset_bit(array, bit) ==
    IF bit \div 8 >= Len(array) THEN array
    ELSE IF is_bit_set(array, bit)
         THEN [array EXCEPT ![(bit \div 8) + 1] = @ - Pow2(bit % 8)]
         ELSE array

(***************************************************************************)
(* `for i in lo..hi { body }` with early exit: Body(st, i) is applied for  *)
(* i = lo, lo+1, ..., hi-1 in this order and the loop is left as soon as   *)
(* a body sets st.brk (a `return` or a `?` inside the loop).  The range is *)
(* split in halves only to keep the evaluation shallow.                    *)
(***************************************************************************)
RECURSIVE ForRange(_, _, _, _)
ForRange(Body(_, _), st, lo, hi) ==
    IF lo >= hi THEN st
    ELSE IF hi = lo + 1 THEN IF st.brk THEN st ELSE Body(st, lo)
    ELSE Let(ForRange(Body, st, lo, (lo + hi) \div 2), LAMBDA x :
             IF x.brk THEN x ELSE ForRange(Body, x, (lo + hi) \div 2, hi))

(***************************************************************************)
(* CRC-8 (lib.rs 28-42).                                                   *)
(***************************************************************************)
\* a ^ b on u8.
Xor8(a, b) ==
    LET bit(k) == (BitOf(a, k) + BitOf(b, k)) % 2
    IN  bit(0) + 2 * bit(1) + 4 * bit(2) + 8 * bit(3) + 16 * bit(4)
        + 32 * bit(5) + 64 * bit(6) + 128 * bit(7)

crc8_bit_body(st, i) ==
    Let((Xor8(st.crc, st.byte)) % 2, LAMBDA mix :
    [crc |-> IF mix # 0 THEN Xor8(st.crc \div 2, 140) ELSE st.crc \div 2,
     byte |-> st.byte \div 2, data |-> st.data, brk |-> FALSE])

crc8_byte_body(st, i) ==
    ForRange(crc8_bit_body,
             [crc |-> st.crc, byte |-> st.data[i + 1], data |-> st.data,
              brk |-> FALSE], 0, 8)

\* compute_partial_crc8 that complements the register at the end.
compute_partial_crc8_xorout(crc, data) ==
    Xor8(ForRange(crc8_byte_body,
                  [crc |-> crc, byte |-> 0, data |-> data, brk |-> FALSE],
                  0, Len(data)).crc,
         255)

compute_partial_crc8(crc, data) ==
    ForRange(crc8_byte_body,
             [crc |-> crc, byte |-> 0, data |-> data, brk |-> FALSE],
             0, Len(data)).crc

(***************************************************************************)
(* The slaves behind the BusLine.  A slave sees the pulses the master      *)
(* drives: a low of 480 us or more is a reset, a low of 60 us or more a    *)
(* written 0, a shorter low a written 1 or a read slot.  In a read slot    *)
(* the line is the wired AND of what the participating slaves send.        *)
(* `pulses` records the width in us of every low pulse the line has seen.  *)
(***************************************************************************)
RomBit(d, i) == BitOf(d[(i \div 8) + 1], i % 8)

AllSend(part, i, b) == \A d \in part : RomBit(d, i) = b

\* A bit received from the master.
SlRecv(sl, b) ==
    CASE sl.mode = "presence" \/ sl.mode = "cmd" ->
           LET n == IF sl.mode = "presence" THEN 0 ELSE sl.rxn
               byte == (IF sl.mode = "presence" THEN 0 ELSE sl.rx) + b * Pow2(n)
           IN IF n + 1 < 8
              THEN [sl EXCEPT !.mode = "cmd", !.rxn = n + 1, !.rx = byte]
              ELSE [sl EXCEPT !.rxn = 0, !.rx = 0, !.pos = 0, !.phase = 0,
                              !.mode = CASE byte = SearchRom -> "search"
                                         [] byte = MatchRom -> "match"
                                         [] byte = ReadRom -> "readrom"
                                         [] OTHER -> "func"]
      [] sl.mode = "search" /\ sl.phase = 2 ->
           [sl EXCEPT !.part = {d \in sl.part : RomBit(d, sl.pos) = b},
                      !.pos = sl.pos + 1, !.phase = 0,
                      !.mode = IF sl.pos + 1 = BITS THEN "func" ELSE "search"]
      [] sl.mode = "match" ->
           [sl EXCEPT !.part = {d \in sl.part : RomBit(d, sl.pos) = b},
                      !.pos = sl.pos + 1,
                      !.mode = IF sl.pos + 1 = BITS THEN "func" ELSE "match"]
      [] OTHER -> sl

\* A short low pulse: a read slot when the slaves have something to send,
\* a written 1 otherwise.
SlShort(sl) ==
    CASE sl.mode = "search" /\ sl.phase = 0 ->
           [sl EXCEPT !.level = AllSend(sl.part, sl.pos, 1), !.phase = 1]
      [] sl.mode = "search" /\ sl.phase = 1 ->
           [sl EXCEPT !.level = AllSend(sl.part, sl.pos, 0), !.phase = 2]
      [] sl.mode = "readrom" ->
           [sl EXCEPT !.level = (sl.pos >= BITS) \/ AllSend(sl.part, sl.pos, 1),
                      !.pos = sl.pos + 1]
      [] sl.mode = "func" ->
           [sl EXCEPT !.level = (sl.part = {})
                                   \/ sl.data[(sl.dk % Len(sl.data)) + 1],
                      !.sent = TRUE]
      [] OTHER -> [SlRecv(sl, 1) EXCEPT !.level = TRUE]

SlSetLow(sl) == IF sl.low THEN sl ELSE [sl EXCEPT !.low = TRUE, !.lowT = 0]

SlDelay(sl, us) == IF sl.low THEN [sl EXCEPT !.lowT = sl.lowT + us] ELSE sl

\* The line released after a low of `width` us.
SlPulse(up, width) ==
    CASE width >= 480 ->
           [up EXCEPT !.mode = "presence", !.k = 0, !.part = up.bus,
                      !.level = TRUE]
      [] width >= 60 -> [SlRecv(up, 0) EXCEPT !.level = TRUE]
      [] width > 0 -> SlShort(up)
      [] OTHER -> up

SlSetHigh(sl) ==
    IF ~sl.low THEN [sl EXCEPT !.mode = "rise", !.k = 0]
    ELSE Let([sl EXCEPT !.low = FALSE, !.lowT = 0,
                        !.pulses = IF sl.lowT > 0 THEN Append(@, sl.lowT) ELSE @],
             LAMBDA up : SlPulse(up, sl.lowT))

\* The level an input sample sees, and the slaves after it.
SlLevel(sl) ==
    CASE sl.low -> FALSE
      [] sl.mode = "rise" -> sl.k + 1 > sl.lowPolls
      [] sl.mode = "presence" ->
           ~(sl.k + 1 <= PresenceSamples /\ sl.presence[sl.k + 1])
      [] OTHER -> sl.level

\* In a function phase a short slot the master samples is a read slot and
\* uses up one bit of `data`; one it does not sample was a written 1.
SlSampled(sl) ==
    IF ~sl.low /\ (sl.mode = "rise" \/ sl.mode = "presence")
    THEN [sl EXCEPT !.k = sl.k + 1]
    ELSE IF ~sl.low /\ sl.mode = "func" /\ sl.sent
    THEN [sl EXCEPT !.dk = sl.dk + 1, !.sent = FALSE]
    ELSE sl

\* The bus before an operation: the devices on it, how many polls the line
\* takes to rise after a release, the presence samples (TRUE = low) and
\* the bits a selected device answers in read slots.
Slaves(bus, lowPolls, presence, data) ==
    [bus |-> bus, part |-> {}, mode |-> "func", pos |-> 0, phase |-> 0,
     rxn |-> 0, rx |-> 0, low |-> FALSE, lowT |-> 0, level |-> TRUE, k |-> 0,
     dk |-> 0, sent |-> FALSE, pulses |-> <<>>,
     lowPolls |-> lowPolls, presence |-> presence, data |-> data]

\* The wire context an operation starts from.  failAt = 0: no GPIO fault.
\* parasite_mode is the Driver's flag (driver.rs 5-16).
Wire(sl, failAt, failErr, parasite_mode) ==
    [log |-> <<>>, n |-> 0, sl |-> sl, failAt |-> failAt, failErr |-> failErr,
     parasite_mode |-> parasite_mode]

(***************************************************************************)
(* The BusLine capability and the delay source (driver.rs 290-308).        *)
(* The call number failAt of an operation fails with failErr.              *)
(***************************************************************************)
Faulty(c) == c.n + 1 = c.failAt

Failed(c, call) ==
    [c |-> [c EXCEPT !.n = @ + 1, !.log = Append(@, <<call, -1>>)],
     r |-> Err(c.failErr)]

set_high(c) ==
    Let(c, LAMBDA k :
        IF Faulty(k) THEN Failed(k, "set_high")
        ELSE [c |-> [k EXCEPT !.n = @ + 1,
                              !.log = Append(@, <<"set_high", 0>>),
                              !.sl = SlSetHigh(@)],
              r |-> Ok(Unit)])

set_low(c) ==
    Let(c, LAMBDA k :
        IF Faulty(k) THEN Failed(k, "set_low")
        ELSE [c |-> [k EXCEPT !.n = @ + 1,
                              !.log = Append(@, <<"set_low", 0>>),
                              !.sl = SlSetLow(@)],
              r |-> Ok(Unit)])

is_high(c) ==
    Let(c, LAMBDA k :
        IF Faulty(k) THEN Failed(k, "is_high")
        ELSE [c |-> [k EXCEPT !.n = @ + 1,
                              !.log = Append(@, <<"is_high",
                                                 IF SlLevel(k.sl) THEN 1 ELSE 0>>),
                              !.sl = SlSampled(@)],
              r |-> Ok(SlLevel(k.sl))])

is_low(c) ==
    Let(c, LAMBDA k :
        IF Faulty(k) THEN Failed(k, "is_low")
        ELSE [c |-> [k EXCEPT !.n = @ + 1,
                              !.log = Append(@, <<"is_low",
                                                 IF SlLevel(k.sl) THEN 0 ELSE 1>>),
                              !.sl = SlSampled(@)],
              r |-> Ok(~SlLevel(k.sl))])

delay_us(c, us) ==
    [c EXCEPT !.log = Append(@, <<"delay", us>>), !.sl = SlDelay(@, us)]

(***************************************************************************)
(* Driver: bit and byte slots (driver.rs 209-288).                         *)
(***************************************************************************)
\* write_bit that goes on after set_low fails.
write_bit_careless(c, high) ==
    Let(set_low(c), LAMBDA a :
    Let(set_high(delay_us(a.c, IF high THEN 10 ELSE 65)), LAMBDA b :
    IF ~b.r.ok THEN b ELSE
    [c |-> delay_us(b.c, IF high THEN 55 ELSE 5), r |-> Ok(Unit)]))

write_bit(c, high) ==
    Let(set_low(c), LAMBDA a :
    IF ~a.r.ok THEN a ELSE
    Let(set_high(delay_us(a.c, IF high THEN 10 ELSE 65)), LAMBDA b :
    IF ~b.r.ok THEN b ELSE
    [c |-> delay_us(b.c, IF high THEN 55 ELSE 5), r |-> Ok(Unit)]))

read_bit(c) ==
    Let(set_low(c), LAMBDA a :
    IF ~a.r.ok THEN a ELSE
    Let(set_high(delay_us(a.c, 3)), LAMBDA b :
    IF ~b.r.ok THEN b ELSE
    Let(is_high(delay_us(b.c, 2)), LAMBDA val :
    [c |-> delay_us(val.c, 61), r |-> val.r])))

disable_parasite_mode(c, parasite_mode) ==
    IF ~parasite_mode THEN set_low(c) ELSE [c |-> c, r |-> Ok(Unit)]

write_byte_body(st, i) ==
    Let(write_bit(st.c, (st.byte % 2) = 1), LAMBDA a :
    [c |-> a.c, r |-> a.r, brk |-> ~a.r.ok, byte |-> st.byte \div 2])

\* write_byte that sends the most significant bit first.
write_byte_msb_body(st, i) ==
    Let(write_bit(st.c, st.byte >= 128), LAMBDA a :
    [c |-> a.c, r |-> a.r, brk |-> ~a.r.ok, byte |-> (st.byte * 2) % 256])

write_byte_msb_first(c, byte, parasite_mode) ==
    Let(ForRange(write_byte_msb_body,
                 [c |-> c, r |-> Ok(Unit), brk |-> FALSE, byte |-> byte], 0, 8),
        LAMBDA a :
    IF ~a.r.ok THEN [c |-> a.c, r |-> a.r]
    ELSE disable_parasite_mode(a.c, parasite_mode))

write_byte(c, byte, parasite_mode) ==
    Let(ForRange(write_byte_body,
                 [c |-> c, r |-> Ok(Unit), brk |-> FALSE, byte |-> byte], 0, 8),
        LAMBDA a :
    IF ~a.r.ok THEN [c |-> a.c, r |-> a.r]
    ELSE disable_parasite_mode(a.c, parasite_mode))

write_command(c, cmd, parasite_mode) == write_byte(c, cmd, parasite_mode)

write_bytes_body(st, i) ==
    Let(write_byte(st.c, st.bytes[i + 1], FALSE), LAMBDA a :
    [c |-> a.c, r |-> a.r, brk |-> ~a.r.ok, bytes |-> st.bytes])

write_bytes(c, bytes) ==
    Let(ForRange(write_bytes_body,
                 [c |-> c, r |-> Ok(Unit), brk |-> FALSE, bytes |-> bytes],
                 0, Len(bytes)),
        LAMBDA a :
    IF ~a.r.ok THEN [c |-> a.c, r |-> a.r]
    ELSE disable_parasite_mode(a.c, a.c.parasite_mode))

\* read_byte that takes the first bit received for the most significant.
read_byte_msb_body(st, i) ==
    Let(read_bit(st.c), LAMBDA a :
    [c |-> a.c, r |-> a.r, brk |-> ~a.r.ok,
     byte |-> ((st.byte * 2) % 256) + (IF a.r.ok /\ a.r.v THEN 1 ELSE 0)])

read_byte_msb_first(c) ==
    Let(ForRange(read_byte_msb_body,
                 [c |-> c, r |-> Ok(Unit), brk |-> FALSE, byte |-> 0], 0, 8),
        LAMBDA a :
    [c |-> a.c, r |-> IF a.r.ok THEN Ok(a.byte) ELSE a.r])

read_byte_body(st, i) ==
    Let(read_bit(st.c), LAMBDA a :
    [c |-> a.c, r |-> a.r, brk |-> ~a.r.ok,
     byte |-> (st.byte \div 2) + (IF a.r.ok /\ a.r.v THEN 128 ELSE 0)])

read_byte(c) ==
    Let(ForRange(read_byte_body,
                 [c |-> c, r |-> Ok(Unit), brk |-> FALSE, byte |-> 0], 0, 8),
        LAMBDA a :
    [c |-> a.c, r |-> IF a.r.ok THEN Ok(a.byte) ELSE a.r])

\* dst is the caller's buffer; the result carries the buffer as the call
\* leaves it, also when it fails part way.
read_bytes_body(st, i) ==
    Let(read_byte(st.c), LAMBDA a :
    [c |-> a.c, r |-> IF a.r.ok THEN Ok(Unit) ELSE a.r, brk |-> ~a.r.ok,
     dst |-> IF a.r.ok THEN [st.dst EXCEPT ![i + 1] = a.r.v] ELSE st.dst])

read_bytes(c, dst) ==
    Let(ForRange(read_bytes_body,
                 [c |-> c, r |-> Ok(Unit), brk |-> FALSE, dst |-> dst],
                 0, Len(dst)),
        LAMBDA a :
    [c |-> a.c, r |-> a.r, dst |-> a.dst])

(***************************************************************************)
(* Driver: reset and presence (driver.rs 157-207).                         *)
(***************************************************************************)
ensure_wire_high_body(st, i) ==
    Let(From(is_high(st.c)), LAMBDA a :
    IF ~a.r.ok THEN [c |-> a.c, r |-> a.r, brk |-> TRUE]
    ELSE IF a.r.v THEN [c |-> a.c, r |-> Ok(Unit), brk |-> TRUE]
    ELSE [c |-> delay_us(a.c, 2), r |-> Ok(Unit), brk |-> FALSE])

\* ensure_wire_high that gives up one poll early.
ensure_wire_high_early(c) ==
    Let(ForRange(ensure_wire_high_body,
                 [c |-> c, r |-> Ok(Unit), brk |-> FALSE],
                 0, WatchdogPolls - 1),
        LAMBDA a :
    IF a.brk THEN [c |-> a.c, r |-> a.r]
    ELSE [c |-> a.c, r |-> Err(WireFault)])

ensure_wire_high(c) ==
    Let(ForRange(ensure_wire_high_body,
                 [c |-> c, r |-> Ok(Unit), brk |-> FALSE], 0, WatchdogPolls),
        LAMBDA a :
    IF a.brk THEN [c |-> a.c, r |-> a.r]
    ELSE [c |-> a.c, r |-> Err(WireFault)])

presence_body(st, i) ==
    Let(From(is_low(delay_us(st.c, 10))), LAMBDA a :
    [c |-> a.c, r |-> a.r, brk |-> ~a.r.ok,
     presence |-> st.presence \/ (a.r.ok /\ a.r.v)])

reset(c) ==
    Let(From(set_high(c)), LAMBDA a :
    IF ~a.r.ok THEN a ELSE
    Let(ensure_wire_high(a.c), LAMBDA b :
    IF ~b.r.ok THEN b ELSE
    Let(From(set_low(b.c)), LAMBDA d :
    IF ~d.r.ok THEN d ELSE
    Let(From(set_high(delay_us(d.c, 480))), LAMBDA e :
    IF ~e.r.ok THEN e ELSE
    Let(ForRange(presence_body,
                 [c |-> e.c, r |-> Ok(Unit), brk |-> FALSE, presence |-> FALSE],
                 0, PresenceSamples),
        LAMBDA p :
    IF ~p.r.ok THEN [c |-> p.c, r |-> p.r] ELSE
    [c |-> delay_us(p.c, 410),
     r |-> IF p.presence THEN Ok(Unit) ELSE Err(NoPresence)])))))

\* reset_presence that takes every error of reset for an empty bus.
reset_presence_any_error(c) ==
    Let(reset(c), LAMBDA a :
    IF a.r.ok THEN [a EXCEPT !.r = Ok(TRUE)]
    ELSE [a EXCEPT !.r = Ok(FALSE)])

reset_presence(c) ==
    Let(reset(c), LAMBDA a :
    IF a.r.ok THEN [a EXCEPT !.r = Ok(TRUE)]
    ELSE IF a.r.e = NoPresence THEN [a EXCEPT !.r = Ok(FALSE)]
    ELSE a)

(***************************************************************************)
(* Driver: skip and select (driver.rs 125-139).                            *)
(***************************************************************************)
skip(c) == From(write_command(c, SkipRom, c.parasite_mode))

select_body(st, i) ==
    Let(From(write_byte(st.c, st.addr[i + 1],
                        st.c.parasite_mode /\ (i = BYTES - 1))),
        LAMBDA a :
    [c |-> a.c, r |-> a.r, brk |-> ~a.r.ok, addr |-> st.addr])

select(c, addr) ==
    Let(From(write_command(c, MatchRom, c.parasite_mode)), LAMBDA a :
    IF ~a.r.ok THEN a ELSE
    Let(ForRange(select_body,
                 [c |-> a.c, r |-> Ok(Unit), brk |-> FALSE, addr |-> addr],
                 0, BYTES),
        LAMBDA b :
    [c |-> b.c, r |-> b.r]))

(***************************************************************************)
(* Driver: compound transactions (driver.rs 18-123).  Each result carries  *)
(* the caller's read buffer as the call leaves it.                         *)
(***************************************************************************)
NoBuf == <<>>
Then(x, dst) == [c |-> x.c, r |-> x.r, dst |-> dst]
FromRead(x) == Let(x, LAMBDA v : [c |-> v.c, r |-> Wrapped(v).r, dst |-> v.dst])

reset_write_read(c, write, read) ==
    Let(reset(c), LAMBDA a :
    IF ~a.r.ok THEN Then(a, read) ELSE
    Let(From(write_bytes(a.c, write)), LAMBDA b :
    IF ~b.r.ok THEN Then(b, read) ELSE
    FromRead(read_bytes(b.c, read))))

\* reset_read_only that reads whatever the reset answered.
reset_read_only_regardless(c, read) ==
    Let(reset(c), LAMBDA a :
    Let(FromRead(read_bytes(a.c, read)), LAMBDA b :
    IF ~a.r.ok THEN [b EXCEPT !.r = a.r] ELSE b))

reset_read_only(c, read) ==
    Let(reset(c), LAMBDA a :
    IF ~a.r.ok THEN Then(a, read) ELSE
    FromRead(read_bytes(a.c, read)))

reset_write_only(c, write) ==
    Let(reset(c), LAMBDA a :
    IF ~a.r.ok THEN Then(a, NoBuf) ELSE
    Let(From(write_bytes(a.c, write)), LAMBDA b : Then(b, NoBuf)))

reset_select_write_read(c, addr, write, read) ==
    Let(reset(c), LAMBDA a :
    IF ~a.r.ok THEN Then(a, read) ELSE
    Let(select(a.c, addr), LAMBDA s :
    IF ~s.r.ok THEN Then(s, read) ELSE
    Let(From(write_bytes(s.c, write)), LAMBDA b :
    IF ~b.r.ok THEN Then(b, read) ELSE
    FromRead(read_bytes(b.c, read)))))

reset_select_read_only(c, addr, read) ==
    Let(reset(c), LAMBDA a :
    IF ~a.r.ok THEN Then(a, read) ELSE
    Let(select(a.c, addr), LAMBDA s :
    IF ~s.r.ok THEN Then(s, read) ELSE
    Let(select(s.c, addr), LAMBDA t :
    IF ~t.r.ok THEN Then(t, read) ELSE
    FromRead(read_bytes(t.c, read)))))

reset_select_write_only(c, addr, write) ==
    Let(reset(c), LAMBDA a :
    IF ~a.r.ok THEN Then(a, NoBuf) ELSE
    Let(select(a.c, addr), LAMBDA s :
    IF ~s.r.ok THEN Then(s, NoBuf) ELSE
    Let(select(s.c, addr), LAMBDA t :
    IF ~t.r.ok THEN Then(t, NoBuf) ELSE
    Let(From(write_bytes(t.c, write)), LAMBDA b : Then(b, NoBuf)))))

reset_skip_write_read(c, write, read) ==
    Let(reset(c), LAMBDA a :
    IF ~a.r.ok THEN Then(a, read) ELSE
    Let(skip(a.c), LAMBDA s :
    IF ~s.r.ok THEN Then(s, read) ELSE
    Let(From(write_bytes(s.c, write)), LAMBDA b :
    IF ~b.r.ok THEN Then(b, read) ELSE
    FromRead(read_bytes(b.c, read)))))

reset_skip_read_only(c, read) ==
    Let(reset(c), LAMBDA a :
    IF ~a.r.ok THEN Then(a, read) ELSE
    Let(skip(a.c), LAMBDA s :
    IF ~s.r.ok THEN Then(s, read) ELSE
    FromRead(read_bytes(s.c, read))))

reset_skip_write_only(c, write) ==
    Let(reset(c), LAMBDA a :
    IF ~a.r.ok THEN Then(a, NoBuf) ELSE
    Let(skip(a.c), LAMBDA s :
    IF ~s.r.ok THEN Then(s, NoBuf) ELSE
    Let(From(write_bytes(s.c, write)), LAMBDA b : Then(b, NoBuf))))

(***************************************************************************)
(* Device search (search.rs).  A cursor is [address, discrepancies,        *)
(* state]; a search result carries the cursor as the call leaves it.       *)
(***************************************************************************)
Zeros == [i \in 1..BYTES |-> 0]

DeviceSearch_new == [address |-> Zeros, discrepancies |-> Zeros,
                     state |-> "Initialized"]

new_for_family(family) ==
    [DeviceSearch_new EXCEPT !.address[1] = family]

write_bit_in_address(rom, bit, value) ==
    [rom EXCEPT !.address = IF value THEN set_bit(rom.address, bit)
                            ELSE reset_bit(rom.address, bit)]

\* Option<u8> as an integer: None is -1.
None == -1

last_discrepancy_body(st, i) ==
    [st EXCEPT !.result = IF is_bit_set(st.rom.discrepancies, i) THEN i ELSE @]

last_discrepancy(rom) ==
    ForRange(last_discrepancy_body,
             [rom |-> rom, result |-> None, brk |-> FALSE], 0, BITS).result

\* Option<Address> as a tuple.
NoAddress == <<"None">>
Some(address) == <<"Some", address>>

\* The state of a search pass: the wire, the cursor, the old
\* last_discrepancy, the flag discrepancy_found, and (brk) the result r the
\* pass returned early with.
Pass(c, r, brk, rom, last, found) ==
    [c |-> c, r |-> r, brk |-> brk, rom |-> rom, last |-> last, found |-> found]

\* search.rs 165-178: walk the previous path.
search_replay_body(st, i) ==
    Let(From(read_bit(st.c)), LAMBDA bit0 :
    IF ~bit0.r.ok THEN Pass(bit0.c, bit0.r, TRUE, st.rom, st.last, st.found) ELSE
    Let(From(read_bit(bit0.c)), LAMBDA bit1 :
    IF ~bit1.r.ok THEN Pass(bit1.c, bit1.r, TRUE, st.rom, st.last, st.found) ELSE
    IF bit0.r.v /\ bit1.r.v
    THEN Pass(bit1.c, Ok(NoAddress), TRUE, st.rom, st.last, st.found)
    ELSE Let(From(write_bit(bit1.c, is_bit_set(st.rom.address, i))), LAMBDA w :
         Pass(w.c, w.r, ~w.r.ok, st.rom, st.last, st.found))))

\* search_second_path that goes the first way once more.
search_second_path_again(st, i, c) ==
    Let(From(write_bit(c, FALSE)), LAMBDA w :
    Pass(w.c, w.r, ~w.r.ok,
         [st.rom EXCEPT !.discrepancies = reset_bit(@, i),
                        !.address = reset_bit(@, i)],
         st.last, st.found))

\* search.rs 191-195: go the other way at the last discrepancy.
search_second_path(st, i, c) ==
    Let(From(write_bit(c, TRUE)), LAMBDA w :
    Pass(w.c, w.r, ~w.r.ok,
         [st.rom EXCEPT !.discrepancies = reset_bit(@, i),
                        !.address = set_bit(@, i)],
         st.last, st.found))

\* search_first_path that does not record the discrepancy.
search_first_path_unrecorded(st, i, c) ==
    Let(From(write_bit(c, FALSE)), LAMBDA w :
    Pass(w.c, w.r, ~w.r.ok,
         [st.rom EXCEPT !.address = reset_bit(@, i)],
         st.last, st.found))

\* search.rs 202-208: a new discrepancy, go the first path.
search_first_path(st, i, c) ==
    Let(From(write_bit(c, FALSE)), LAMBDA w :
    Pass(w.c, w.r, ~w.r.ok,
         [st.rom EXCEPT !.discrepancies = set_bit(@, i),
                        !.address = reset_bit(@, i)],
         st.last, TRUE))

\* search.rs 209-213: all addresses have bit0 here.
search_only_path(st, i, c, bit0) ==
    Let(From(write_bit(c, bit0)), LAMBDA w :
    Pass(w.c, w.r, ~w.r.ok, write_bit_in_address(st.rom, i, bit0),
         st.last, st.found))

\* search.rs 187-215: the branch phase.
search_branch_body(st, i) ==
    Let(From(read_bit(st.c)), LAMBDA bit0 :
    IF ~bit0.r.ok THEN Pass(bit0.c, bit0.r, TRUE, st.rom, st.last, st.found) ELSE
    Let(From(read_bit(bit0.c)), LAMBDA bit1 :
    IF ~bit1.r.ok THEN Pass(bit1.c, bit1.r, TRUE, st.rom, st.last, st.found) ELSE
    IF st.last = i THEN search_second_path(st, i, bit1.c)
    ELSE IF bit0.r.v /\ bit1.r.v
    THEN Pass(bit1.c, Ok(NoAddress), TRUE, st.rom, st.last, st.found)
    ELSE IF ~bit0.r.v /\ ~bit1.r.v THEN search_first_path(st, i, bit1.c)
    ELSE search_only_path(st, i, bit1.c, bit0.r.v)))

Found(c, r, rom) == [c |-> c, r |-> r, rom |-> rom]

\* search_finish that asks for the last_discrepancy the call started with.
search_finish_old_last(b) ==
    Let([b.rom EXCEPT !.state =
            IF ~b.found /\ b.last = None
            THEN "End" ELSE "DeviceFound"],
        LAMBDA rom1 : Found(b.c, Ok(Some(rom1.address)), rom1))

\* search.rs 217-222.
search_finish(b) ==
    Let([b.rom EXCEPT !.state =
            IF ~b.found /\ last_discrepancy(b.rom) = None
            THEN "End" ELSE "DeviceFound"],
        LAMBDA rom1 : Found(b.c, Ok(Some(rom1.address)), rom1))

\* search.rs 163-215, after the search opcode is out.
search_pass(c, rom, last) ==
    Let(IF last # None
        THEN ForRange(search_replay_body,
                      Pass(c, Ok(Unit), FALSE, rom, last, FALSE), 0, last)
        ELSE Pass(c, Ok(Unit), FALSE, rom, last, FALSE),
        LAMBDA walked :
    IF walked.brk THEN Found(walked.c, walked.r, walked.rom) ELSE
    IF last = None /\ rom.state = "DeviceFound"
    THEN Found(walked.c, Ok(NoAddress), [rom EXCEPT !.state = "End"]) ELSE
    Let(ForRange(search_branch_body, walked,
                 IF last = None THEN 0 ELSE last, BITS),
        LAMBDA b :
    IF b.brk THEN Found(b.c, b.r, b.rom) ELSE search_finish(b)))

\* search without the check of SearchState::End.
search_past_end(c, rom, cmd) ==
    Let(last_discrepancy(rom), LAMBDA last :
    Let(reset_presence(c), LAMBDA p :
    IF ~p.r.ok THEN Found(p.c, p.r, rom) ELSE
    IF ~p.r.v THEN Found(p.c, Ok(NoAddress), rom) ELSE
    Let(From(write_byte(p.c, cmd, FALSE)), LAMBDA w :
    IF ~w.r.ok THEN Found(w.c, w.r, rom) ELSE
    search_pass(w.c, rom, last))))

\* search that goes on without a presence pulse.
search_without_presence(c, rom, cmd) ==
    IF rom.state = "End" THEN Found(c, Ok(NoAddress), rom) ELSE
    Let(last_discrepancy(rom), LAMBDA last :
    Let(reset_presence(c), LAMBDA p :
    IF ~p.r.ok THEN Found(p.c, p.r, rom) ELSE
    Let(From(write_byte(p.c, cmd, FALSE)), LAMBDA w :
    IF ~w.r.ok THEN Found(w.c, w.r, rom) ELSE
    search_pass(w.c, rom, last))))

search(c, rom, cmd) ==
    IF rom.state = "End" THEN Found(c, Ok(NoAddress), rom) ELSE
    Let(last_discrepancy(rom), LAMBDA last :
    Let(reset_presence(c), LAMBDA p :
    IF ~p.r.ok THEN Found(p.c, p.r, rom) ELSE
    IF ~p.r.v THEN Found(p.c, Ok(NoAddress), rom) ELSE
    Let(From(write_byte(p.c, cmd, FALSE)), LAMBDA w :
    IF ~w.r.ok THEN Found(w.c, w.r, rom) ELSE
    search_pass(w.c, rom, last))))

search_next(c, rom) == search(c, rom, SearchRom)

(***************************************************************************)
(* DS18B20 (ds18b20.rs 57-64).                                             *)
(***************************************************************************)
measure_temperature(c, dev) ==
    Let(reset_select_write_only(c, dev.address, <<Convert>>), LAMBDA a :
    IF ~a.r.ok THEN [c |-> a.c, r |-> a.r]
    ELSE [c |-> a.c, r |-> Ok(dev.resolution)])

(***************************************************************************)
(* CRC of an Address over data (address.rs 70-82).                         *)
(***************************************************************************)
compute_crc8(address, data) ==
    compute_partial_crc8(compute_partial_crc8(0, address), data)

ensure_correct_crc8(address, data, crc8) ==
    Let(compute_crc8(address, data), LAMBDA computed :
    IF computed # crc8 THEN Err(CrcMismatch(computed, crc8)) ELSE Ok(Unit))

(***************************************************************************)
(* DS18B20 read_temperature (ds18b20.rs 66-85).                            *)
(***************************************************************************)
read_temperature_from_scratchpad(scratchpad) ==
    scratchpad[1] + 256 * scratchpad[2]

read_temperature(c, dev) ==
    Let(reset_select_write_read(c, dev.address, <<ReadScratchpad>>,
                                [i \in 1..9 |-> 0]),
        LAMBDA a :
    IF ~a.r.ok THEN [c |-> a.c, r |-> a.r] ELSE
    Let(ensure_correct_crc8(dev.address, SubSeq(a.dst, 1, 8), a.dst[9]),
        LAMBDA e :
    IF ~e.ok THEN [c |-> a.c, r |-> e]
    ELSE [c |-> a.c, r |-> Ok(read_temperature_from_scratchpad(a.dst))]))

(***************************************************************************)
(* Address::read_single, get_single (address.rs 139-155).                  *)
(***************************************************************************)
\* ds18b20.rs 132-139.  i16 values are integers of -2^15 .. 2^15 - 1.  The
\* negation of i16::MIN overflows: a build with overflow checks panics, one
\* without wraps to i16::MIN.
AsI16(u) == IF u % Pow2(16) >= Pow2(15) THEN (u % Pow2(16)) - Pow2(16)
            ELSE u % Pow2(16)
Panic(msg) == [ok |-> FALSE, v |-> Unit, e |-> <<"panic", msg>>]
Shr4(v) == (v - (v % 16)) \div 16
And0xF(v) == v % 16

split_temp(temperature, overflow_checks) ==
    IF temperature < 32768
    THEN Ok(<<Shr4(AsI16(temperature)), And0xF(AsI16(temperature)) * 625>>)
    ELSE IF AsI16(temperature) = -Pow2(15) /\ overflow_checks
    THEN Panic("attempt to negate with overflow")
    ELSE Let(AsI16(-AsI16(temperature)), LAMBDA abs :
         Ok(<<AsI16(-Shr4(abs)), AsI16(-625 * And0xF(abs))>>))

(***************************************************************************)
(* Address as text (address.rs 87-136).  A text is a sequence of           *)
(* characters, a character a string of length 1; CharOf gives the          *)
(* character of an ASCII code, for the codes the texts below are made of.  *)
(***************************************************************************)
Codes == {32, 47, 58} \cup 48..57 \cup 64..71 \cup 97..103
CharOf(n) ==
    CASE n = 32 -> " " [] n = 47 -> "/" [] n = 58 -> ":"
      [] n \in 48..57 ->
           <<"0", "1", "2", "3", "4", "5", "6", "7", "8", "9">>[n - 47]
      [] n \in 64..71 -> <<"@", "A", "B", "C", "D", "E", "F", "G">>[n - 63]
      [] n \in 97..103 -> <<"a", "b", "c", "d", "e", "f", "g">>[n - 96]
Alphabet == {CharOf(n) : n \in Codes}
CharCode == [ch \in Alphabet |-> CHOOSE n \in Codes : CharOf(n) = ch]

NotEnough == <<"NotEnough">>
Invalid == <<"Invalid">>
NoDigit == <<"None">>

is_ascii_digit(ch) == CharCode[ch] \in 48..57
is_whitespace(ch) == CharCode[ch] \in 9..13 \cup {32}

\* hex_to_u8 that knows no upper case letters.
hex_to_u8_lower(ch) ==
    IF is_ascii_digit(ch) THEN Some(CharCode[ch] - 48)
    ELSE IF CharCode[ch] \in 97..102 THEN Some(CharCode[ch] - 97 + 10)
    ELSE NoDigit

hex_to_u8(ch) ==
    IF is_ascii_digit(ch) THEN Some(CharCode[ch] - 48)
    ELSE IF CharCode[ch] \in 97..102 THEN Some(CharCode[ch] - 97 + 10)
    ELSE IF CharCode[ch] \in 65..70 THEN Some(CharCode[ch] - 65 + 10)
    ELSE NoDigit

IsChar(ch) == ~is_whitespace(ch) /\ ch # ":"

from_str_body(st, i) ==
    IF Len(st.chars) < 2
    THEN [st EXCEPT !.chars = <<>>, !.r = Err(NotEnough), !.brk = TRUE]
    ELSE
    Let(hex_to_u8(st.chars[1]), LAMBDA h :
    Let(hex_to_u8(st.chars[2]), LAMBDA l :
    IF h = NoDigit \/ l = NoDigit
    THEN [st EXCEPT !.chars = Tail(Tail(@)), !.r = Err(Invalid), !.brk = TRUE]
    ELSE [st EXCEPT !.chars = Tail(Tail(@)),
                    !.addr[i + 1] = ((h[2] * 16) % 256) + l[2]]))

\* from_str that asks for 16 characters before it looks at any.
from_str_length_first(s) ==
    IF Len(SelectSeq(s, IsChar)) < 2 * BYTES THEN Err(NotEnough) ELSE
    Let(ForRange(from_str_body,
                 [chars |-> SelectSeq(s, IsChar), addr |-> Zeros,
                  r |-> Ok(Unit), brk |-> FALSE], 0, BYTES),
        LAMBDA a : IF a.brk THEN a.r ELSE Ok(a.addr))

from_str(s) ==
    Let(ForRange(from_str_body,
                 [chars |-> SelectSeq(s, IsChar), addr |-> Zeros,
                  r |-> Ok(Unit), brk |-> FALSE], 0, BYTES),
        LAMBDA a : IF a.brk THEN a.r ELSE Ok(a.addr))

\* {:02x}
LowerHex02(byte) ==
    LET digit(n) == CharOf(IF n < 10 THEN 48 + n ELSE 97 + n - 10)
    IN  <<digit(byte \div 16), digit(byte % 16)>>

fmt(address) ==
    LowerHex02(address[1]) \o <<":">> \o LowerHex02(address[2]) \o <<":">>
    \o LowerHex02(address[3]) \o <<":">> \o LowerHex02(address[4]) \o <<":">>
    \o LowerHex02(address[5]) \o <<":">> \o LowerHex02(address[6]) \o <<":">>
    \o LowerHex02(address[7]) \o <<":">> \o LowerHex02(address[8])

read_single(c, address) == reset_write_read(c, <<ReadRom>>, address)

get_single(c) ==
    Let(read_single(c, Zeros), LAMBDA a :
    IF ~a.r.ok THEN [c |-> a.c, r |-> a.r]
    ELSE [c |-> a.c, r |-> Ok(a.dst)])

(***************************************************************************)
(* Rewritable tokens (rw1990.rs).  A token type is the name of its         *)
(* Ds1990Type variant.                                                     *)
(***************************************************************************)
Ds1990Type == {"Ds1990", "Rw1990p1", "Rw1990p2", "Tm01", "Tm2004", "Cyfral",
               "Metacom"}

write_bit_rw(c, high) ==
    Let(set_low(c), LAMBDA a :
    IF ~a.r.ok THEN a ELSE
    Let(set_high(delay_us(a.c, IF high THEN 6 ELSE 60)), LAMBDA b :
    IF ~b.r.ok THEN b ELSE
    [c |-> delay_us(b.c, 10000), r |-> Ok(Unit)]))

write_byte_rw_body(st, i) ==
    Let(write_bit_rw(st.c, IF st.invert THEN (st.byte % 2) # 1
                           ELSE (st.byte % 2) = 1),
        LAMBDA a :
    [c |-> a.c, r |-> a.r, brk |-> ~a.r.ok, byte |-> st.byte \div 2,
     invert |-> st.invert])

\* write_byte_rw that never inverts.
write_byte_rw_plain(c, byte, invert) ==
    Let(ForRange(write_byte_rw_body,
                 [c |-> c, r |-> Ok(Unit), brk |-> FALSE, byte |-> byte,
                  invert |-> FALSE], 0, 8),
        LAMBDA a : [c |-> a.c, r |-> a.r])

write_byte_rw(c, byte, invert) ==
    Let(ForRange(write_byte_rw_body,
                 [c |-> c, r |-> Ok(Unit), brk |-> FALSE, byte |-> byte,
                  invert |-> invert], 0, 8),
        LAMBDA a : [c |-> a.c, r |-> a.r])

write_bytes_rw_body(st, i) ==
    Let(write_byte_rw(st.c, st.bytes[i + 1], st.invert), LAMBDA a :
    [c |-> a.c, r |-> a.r, brk |-> ~a.r.ok, bytes |-> st.bytes,
     invert |-> st.invert])

write_bytes_rw(c, bytes, invert) ==
    Let(ForRange(write_bytes_rw_body,
                 [c |-> c, r |-> Ok(Unit), brk |-> FALSE, bytes |-> bytes,
                  invert |-> invert], 0, Len(bytes)),
        LAMBDA a : [c |-> a.c, r |-> a.r])

program_pulse(c) ==
    Let(set_high(c), LAMBDA a :
    IF ~a.r.ok THEN a ELSE
    Let(set_low(delay_us(a.c, 600)), LAMBDA b :
    IF ~b.r.ok THEN b ELSE
    Let(set_high(delay_us(b.c, 6)), LAMBDA d :
    IF ~d.r.ok THEN d ELSE
    [c |-> delay_us(d.c, 50000), r |-> Ok(Unit)])))

\* rw1990.rs 55-72: (set_cmd, get_cmd, lock) of a token type.
LockCommands(type_, lock) ==
    CASE type_ = "Rw1990p1" ->
           [set_cmd |-> WriteLockSet1, get_cmd |-> WriteLockGet1, lock |-> ~lock]
      [] type_ = "Rw1990p2" ->
           [set_cmd |-> WriteLockSet2, get_cmd |-> WriteLockGet2, lock |-> lock]
      [] OTHER ->
           [set_cmd |-> WriteLockSet3, get_cmd |-> WriteLockGet1, lock |-> lock]

set_write_lock(c, type_, lock) ==
    IF type_ \notin {"Rw1990p1", "Rw1990p2", "Tm01"}
    THEN [c |-> c, r |-> Err(NotSupport)] ELSE
    Let(LockCommands(type_, lock), LAMBDA m :
    Let(reset_write_only(c, <<m.set_cmd>>), LAMBDA a :
    IF ~a.r.ok THEN [c |-> a.c, r |-> a.r] ELSE
    Let(From(write_bit(a.c, m.lock)), LAMBDA b :
    IF ~b.r.ok THEN b ELSE
    Let(reset_write_read(delay_us(b.c, 10000), <<m.get_cmd>>, <<0>>),
        LAMBDA d :
    IF ~d.r.ok THEN [c |-> d.c, r |-> d.r]
    ELSE [c |-> d.c, r |-> Ok(d.dst[1] = 254)]))))

\* rw1990.rs 96-105: neither lock answered.
detect_tm(c) ==
    Let(reset_write_read(c, <<ReadStatus, 0, 0>>, <<0, 0>>), LAMBDA d :
    IF ~d.r.ok THEN [c |-> d.c, r |-> d.r] ELSE
    Let(reset(d.c), LAMBDA e :
    IF ~e.r.ok THEN e ELSE
    [c |-> e.c,
     r |-> Ok(IF compute_partial_crc8(0, <<ReadStatus, 0, 0>>) = d.dst[1]
              THEN "Tm2004" ELSE "Tm01")]))

\* rw1990.rs 89-94: the lock of type_ answered, take it off again.
detected(c, type_) ==
    Let(set_write_lock(c, type_, FALSE), LAMBDA b :
    IF ~b.r.ok THEN b ELSE [c |-> b.c, r |-> Ok(type_)])

\* detect_type that tries the lock of Rw1990p2 first.
detect_type_p2_first(c) ==
    Let(set_write_lock(c, "Rw1990p2", TRUE), LAMBDA a :
    IF ~a.r.ok THEN a ELSE
    IF a.r.v THEN detected(a.c, "Rw1990p2") ELSE
    Let(set_write_lock(a.c, "Rw1990p1", TRUE), LAMBDA b :
    IF ~b.r.ok THEN b ELSE
    IF b.r.v THEN detected(b.c, "Rw1990p1") ELSE detect_tm(b.c)))

detect_type(c) ==
    Let(set_write_lock(c, "Rw1990p1", TRUE), LAMBDA a :
    IF ~a.r.ok THEN a ELSE
    IF a.r.v THEN detected(a.c, "Rw1990p1") ELSE
    Let(set_write_lock(a.c, "Rw1990p2", TRUE), LAMBDA b :
    IF ~b.r.ok THEN b ELSE
    IF b.r.v THEN detected(b.c, "Rw1990p2") ELSE detect_tm(b.c)))

write_address_rw1990(c, dev, type_) ==
    Let(set_write_lock(c, type_, FALSE), LAMBDA a :
    IF ~a.r.ok THEN a ELSE
    Let(reset_write_only(a.c, <<Rw1990_WriteRom>>), LAMBDA b :
    IF ~b.r.ok THEN [c |-> b.c, r |-> b.r] ELSE
    Let(From(write_bytes_rw(b.c, dev.address, type_ # "Rw1990p2")), LAMBDA w :
    IF ~w.r.ok THEN w ELSE
    Let(set_write_lock(w.c, type_, TRUE), LAMBDA l :
    IF ~l.r.ok THEN l ELSE [c |-> l.c, r |-> Ok(Unit)]))))

\* A loop body of write_address_tm2004 that does not compare the echo.
write_address_tm2004_body_blind(st, i) ==
    Let(<<Tm2004_WriteRom, i, 0, st.address[i + 1]>>, LAMBDA cmd_write :
    Let(reset_write_read(st.c, cmd_write, st.crc_read), LAMBDA a :
    IF ~a.r.ok
    THEN [st EXCEPT !.c = a.c, !.r = a.r, !.brk = TRUE, !.crc_read = a.dst]
    ELSE [st EXCEPT !.c = a.c, !.crc_read = a.dst]))

write_address_tm2004_body(st, i) ==
    Let(<<Tm2004_WriteRom, i, 0, st.address[i + 1]>>, LAMBDA cmd_write :
    Let(reset_write_read(st.c, cmd_write, st.crc_read), LAMBDA a :
    IF ~a.r.ok
    THEN [st EXCEPT !.c = a.c, !.r = a.r, !.brk = TRUE, !.crc_read = a.dst]
    ELSE
    Let(compute_partial_crc8(0, cmd_write), LAMBDA crc_write :
    IF crc_write # a.dst[1]
    THEN [st EXCEPT !.c = a.c, !.r = Err(CrcMismatch(crc_write, a.dst[1])),
                    !.brk = TRUE, !.crc_read = a.dst]
    ELSE [st EXCEPT !.c = a.c, !.crc_read = a.dst])))

write_address_tm2004(c, dev) ==
    Let(ForRange(write_address_tm2004_body,
                 [c |-> c, r |-> Ok(Unit), brk |-> FALSE,
                  address |-> dev.address, crc_read |-> <<0>>], 0, BYTES),
        LAMBDA a :
    IF a.brk THEN [c |-> a.c, r |-> a.r] ELSE
    Let(From(program_pulse(a.c)), LAMBDA p :
    IF ~p.r.ok THEN p ELSE [c |-> p.c, r |-> Ok(Unit)]))

\* write_address that takes every variant it does not know for a TM2004.
write_address_any(c, dev, type_) ==
    IF type_ \in {"Rw1990p1", "Rw1990p2", "Tm01"}
    THEN write_address_rw1990(c, dev, type_)
    ELSE write_address_tm2004(c, dev)

write_address(c, dev, type_) ==
    IF type_ \in {"Rw1990p1", "Rw1990p2", "Tm01"}
    THEN write_address_rw1990(c, dev, type_)
    ELSE IF type_ = "Tm2004" THEN write_address_tm2004(c, dev)
    ELSE [c |-> c, r |-> Err(NotSupport)]

(***************************************************************************)
(* The state machine.                                                      *)
(***************************************************************************)
VARIABLES
    bus,            \* the ROMs of the devices on the bus
    env,            \* the line: polls to rise, presence samples, read data
    parasite_mode,  \* the Driver's flag
    cursor,         \* the caller's DeviceSearch
    before,         \* the cursor before the last operation
    op,             \* the last operation and its arguments
    fault,          \* the GPIO fault the last operation met: [at, err]
    result,         \* what the last operation returned
    log,            \* the BusLine and delay calls of the last operation
    line,           \* the line after it: driven low?, the pulses it carried
    buf,            \* the caller's read buffer after the last operation
    found,          \* addresses this cursor returned, the bus unchanged
    stable,         \* the bus has not changed since the cursor was made
    calls           \* search_next calls on this cursor, the bus unchanged

vars == <<bus, env, parasite_mode, cursor, before, op, fault, result, log,
          line, buf, found, stable, calls>>

\* The devices that may be on the bus: DS1990 tokens (one a rewritten
\* clone that differs from the first in the last ROM bit only) and DS18B20
\* thermometers.
RomPool == << <<1, 34, 143, 249, 8, 0, 1, 216>>,
              <<1, 34, 143, 249, 8, 0, 1, 88>>,
              <<40, 255, 75, 26, 145, 22, 4, 86>>,
              <<40, 255, 75, 154, 145, 22, 4, 143>>,
              <<40, 15, 75, 26, 145, 22, 4, 36>>,
              <<1, 34, 143, 249, 8, 0, 3, 100>>,
              <<40, 255, 75, 26, 145, 22, 4, 0>> >>

Roms == {RomPool[i] : i \in 1..NumRoms}

\* Presence samples (TRUE = the line reads low).
NoPulse == [j \in 1..PresenceSamples |-> FALSE]
Pulse(from) == [j \in 1..PresenceSamples |-> j >= from]
PresenceStarts == {2, 6}
PresenceOf(b) == IF b = {} THEN {NoPulse} ELSE {Pulse(s) : s \in PresenceStarts}
AllPresence == [1..PresenceSamples -> BOOLEAN]

SamplePresence == {NoPulse, Pulse(2), Pulse(PresenceSamples)}

NoFault == [at |-> 0, err |-> NoErr]
Op(name, addr, write, read, byte, bit) ==
    [name |-> name, addr |-> addr, write |-> write, read |-> read,
     byte |-> byte, bit |-> bit]
NoOp(name) == Op(name, <<>>, <<>>, <<>>, 0, FALSE)
NoResult == Ok(Unit)
Quiet == [low |-> FALSE, pulses |-> <<>>]

Wire0(f) ==
    Wire(Slaves(bus, env.lowPolls, env.presence, env.data), f.at, f.err,
         parasite_mode)

LineOf(c) == [low |-> c.sl.low, pulses |-> c.sl.pulses]

(***************************************************************************)
(* Enumeration: a caller steps one cursor over a bus that devices may join *)
(* and leave between calls.                                                *)
(***************************************************************************)
Init ==
    /\ bus \in SUBSET Roms
    /\ env \in [lowPolls : 0..MaxRise, presence : PresenceOf(bus),
                data : {<<TRUE>>}]
    /\ parasite_mode = FALSE
    /\ cursor = DeviceSearch_new
    /\ before = DeviceSearch_new
    /\ op = NoOp("new")
    /\ fault = NoFault
    /\ result = NoResult
    /\ log = <<>>
    /\ line = Quiet
    /\ buf = <<>>
    /\ found = <<>>
    /\ stable = TRUE
    /\ calls = 0

IsSome(r) == r.ok /\ r.v # NoAddress

DoSearchNext(f) ==
    \E x \in {search_next(Wire0(f), cursor)} :
    /\ cursor' = x.rom
    /\ before' = cursor
    /\ op' = NoOp("search_next")
    /\ fault' = f
    /\ result' = x.r
    /\ log' = x.c.log
    /\ line' = LineOf(x.c)
    /\ buf' = <<>>
    /\ found' = IF stable /\ IsSome(x.r) THEN Append(found, x.r.v[2]) ELSE found
    /\ calls' = IF stable THEN calls + 1 ELSE calls
    /\ UNCHANGED <<bus, env, parasite_mode, stable>>

SearchNext == calls < MaxCalls /\ DoSearchNext(NoFault)

NewSearch ==
    /\ cursor' = DeviceSearch_new
    /\ before' = cursor
    /\ op' = NoOp("new")
    /\ fault' = NoFault
    /\ result' = NoResult
    /\ log' = <<>>
    /\ line' = Quiet
    /\ buf' = <<>>
    /\ found' = <<>>
    /\ stable' = TRUE
    /\ calls' = 0
    /\ UNCHANGED <<bus, env, parasite_mode>>

Rewire(b) ==
    /\ bus' = b
    /\ env' \in [lowPolls : {env.lowPolls}, presence : PresenceOf(b),
                 data : {env.data}]
    /\ op' = NoOp("rewire")
    /\ before' = cursor
    /\ fault' = NoFault
    /\ result' = NoResult
    /\ log' = <<>>
    /\ line' = Quiet
    /\ buf' = <<>>
    /\ found' = <<>>
    /\ stable' = FALSE
    /\ calls' = 0
    /\ UNCHANGED <<parasite_mode, cursor>>

Plug == \E d \in Roms \ bus : Rewire(bus \cup {d})

Unplug == \E d \in bus : Rewire(bus \ {d})

Next == SearchNext \/ NewSearch \/ Plug \/ Unplug

Spec == Init /\ [][Next]_vars

(***************************************************************************)
(* Single operations on a line that may raise a GPIO fault.  An operation  *)
(* is applied once to the idle driver; the fault, if any, is raised by one *)
(* of the BusLine calls the operation makes.                               *)
(***************************************************************************)
Idle == op.name = "idle"

Faults(n) == {NoFault} \cup [at : 1..n, err : GpioErrors]

\* Faults are drawn on the lines that rise at once or after MaxRise polls
\* and answer with one of the sample presence pulses.
FaultyEnv == env.lowPolls <= MaxRise /\ env.presence \in SamplePresence
FaultsIf(probe, n) == IF probe /\ FaultyEnv THEN Faults(n) ELSE {NoFault}

Commit(o, f, x, dst) ==
    /\ op' = o
    /\ fault' = f
    /\ result' = x.r
    /\ log' = x.c.log
    /\ line' = LineOf(x.c)
    /\ buf' = dst
    /\ before' = cursor
    /\ UNCHANGED <<bus, env, parasite_mode, cursor, found, stable, calls>>

Reset ==
    /\ Idle
    /\ \E f \in FaultsIf(TRUE, reset(Wire0(NoFault)).c.n) :
       \E x \in {reset(Wire0(f))} : Commit(NoOp("reset"), f, x, <<>>)

ResetPresence ==
    /\ Idle
    /\ \E f \in FaultsIf(TRUE, reset_presence(Wire0(NoFault)).c.n) :
       \E x \in {reset_presence(Wire0(f))} :
          Commit(NoOp("reset_presence"), f, x, <<>>)

InitReset ==
    /\ bus = {}
    /\ env \in [lowPolls : 0..MaxRise, presence : AllPresence,
                data : {<<TRUE>>}]
            \cup [lowPolls : 0..(WatchdogPolls + 1), presence : SamplePresence,
                  data : {<<TRUE>>}]
    /\ parasite_mode \in BOOLEAN
    /\ cursor = DeviceSearch_new
    /\ before = DeviceSearch_new
    /\ op = NoOp("idle")
    /\ fault = NoFault
    /\ result = NoResult
    /\ log = <<>>
    /\ line = Quiet
    /\ buf = <<>>
    /\ found = <<>>
    /\ stable = TRUE
    /\ calls = 0

NextReset == Reset \/ ResetPresence

SpecReset == InitReset /\ [][NextReset]_vars

(***************************************************************************)
(* The whole driver API, one call on an idle line.                         *)
(***************************************************************************)
AddrArgs == {RomPool[1], RomPool[3]}
WriteArgs == {<<>>, <<68>>, <<190, 78>>}
ReadArgs == {<<>>, <<0>>, <<7, 9>>}
ByteArgs == {165, 68}
ResolutionArgs == {31, 127}

\* The arguments under which every fault position is tried.
ProbeAddr == RomPool[1]
ProbeWrite == <<190, 78>>
ProbeRead == <<7, 9>>

ReadBit ==
    /\ Idle
    /\ \E f \in FaultsIf(TRUE, read_bit(Wire0(NoFault)).c.n) :
       \E x \in {read_bit(Wire0(f))} : Commit(NoOp("read_bit"), f, x, <<>>)

WriteBit ==
    /\ Idle
    /\ \E high \in BOOLEAN :
       \E f \in FaultsIf(TRUE, write_bit(Wire0(NoFault), high).c.n) :
       \E x \in {write_bit(Wire0(f), high)} :
          Commit(Op("write_bit", <<>>, <<>>, <<>>, 0, high), f, x, <<>>)

ReadByte ==
    /\ Idle
    /\ \E f \in FaultsIf(TRUE, read_byte(Wire0(NoFault)).c.n) :
       \E x \in {read_byte(Wire0(f))} : Commit(NoOp("read_byte"), f, x, <<>>)

WriteByte ==
    /\ Idle
    /\ \E byte \in ByteArgs, pm \in BOOLEAN :
       \E f \in FaultsIf(TRUE, write_byte(Wire0(NoFault), byte, pm).c.n) :
       \E x \in {write_byte(Wire0(f), byte, pm)} :
          Commit(Op("write_byte", <<>>, <<>>, <<>>, byte, pm), f, x, <<>>)

WriteCommand ==
    /\ Idle
    /\ \E cmd \in {ReadRom, SearchRomAlarmed}, pm \in BOOLEAN :
       \E f \in FaultsIf(cmd = ReadRom,
                         write_command(Wire0(NoFault), cmd, pm).c.n) :
       \E x \in {write_command(Wire0(f), cmd, pm)} :
          Commit(Op("write_command", <<>>, <<>>, <<>>, cmd, pm), f, x, <<>>)

ReadBytes ==
    /\ Idle
    /\ \E read \in ReadArgs :
       \E f \in FaultsIf(read = ProbeRead,
                         read_bytes(Wire0(NoFault), read).c.n) :
       \E x \in {read_bytes(Wire0(f), read)} :
          Commit(Op("read_bytes", <<>>, <<>>, read, 0, FALSE), f, x, x.dst)

WriteBytes ==
    /\ Idle
    /\ \E write \in WriteArgs :
       \E f \in FaultsIf(write = ProbeWrite,
                         write_bytes(Wire0(NoFault), write).c.n) :
       \E x \in {write_bytes(Wire0(f), write)} :
          Commit(Op("write_bytes", <<>>, write, <<>>, 0, FALSE), f, x, <<>>)

Select ==
    /\ Idle
    /\ \E addr \in AddrArgs :
       \E f \in FaultsIf(addr = ProbeAddr, select(Wire0(NoFault), addr).c.n) :
       \E x \in {select(Wire0(f), addr)} :
          Commit(Op("select", addr, <<>>, <<>>, 0, FALSE), f, x, <<>>)

Skip ==
    /\ Idle
    /\ \E f \in FaultsIf(TRUE, skip(Wire0(NoFault)).c.n) :
       \E x \in {skip(Wire0(f))} : Commit(NoOp("skip"), f, x, <<>>)

ResetWriteRead ==
    /\ Idle
    /\ \E write \in WriteArgs, read \in ReadArgs :
       \E f \in FaultsIf(write = ProbeWrite /\ read = ProbeRead,
                         reset_write_read(Wire0(NoFault), write, read).c.n) :
       \E x \in {reset_write_read(Wire0(f), write, read)} :
          Commit(Op("reset_write_read", <<>>, write, read, 0, FALSE),
                 f, x, x.dst)

ResetReadOnly ==
    /\ Idle
    /\ \E read \in ReadArgs :
       \E f \in FaultsIf(read = ProbeRead,
                         reset_read_only(Wire0(NoFault), read).c.n) :
       \E x \in {reset_read_only(Wire0(f), read)} :
          Commit(Op("reset_read_only", <<>>, <<>>, read, 0, FALSE),
                 f, x, x.dst)

ResetWriteOnly ==
    /\ Idle
    /\ \E write \in WriteArgs :
       \E f \in FaultsIf(write = ProbeWrite,
                         reset_write_only(Wire0(NoFault), write).c.n) :
       \E x \in {reset_write_only(Wire0(f), write)} :
          Commit(Op("reset_write_only", <<>>, write, <<>>, 0, FALSE),
                 f, x, x.dst)

ResetSelectWriteRead ==
    /\ Idle
    /\ \E addr \in AddrArgs, write \in WriteArgs, read \in ReadArgs :
       \E f \in FaultsIf(addr = ProbeAddr /\ write = ProbeWrite
                            /\ read = ProbeRead,
                         reset_select_write_read(Wire0(NoFault), addr, write,
                                                 read).c.n) :
       \E x \in {reset_select_write_read(Wire0(f), addr, write, read)} :
          Commit(Op("reset_select_write_read", addr, write, read, 0, FALSE),
                 f, x, x.dst)

ResetSelectReadOnly ==
    /\ Idle
    /\ \E addr \in AddrArgs, read \in ReadArgs :
       \E f \in FaultsIf(addr = ProbeAddr /\ read = ProbeRead,
                         reset_select_read_only(Wire0(NoFault), addr,
                                                read).c.n) :
       \E x \in {reset_select_read_only(Wire0(f), addr, read)} :
          Commit(Op("reset_select_read_only", addr, <<>>, read, 0, FALSE),
                 f, x, x.dst)

ResetSelectWriteOnly ==
    /\ Idle
    /\ \E addr \in AddrArgs, write \in WriteArgs :
       \E f \in FaultsIf(addr = ProbeAddr /\ write = ProbeWrite,
                         reset_select_write_only(Wire0(NoFault), addr,
                                                 write).c.n) :
       \E x \in {reset_select_write_only(Wire0(f), addr, write)} :
          Commit(Op("reset_select_write_only", addr, write, <<>>, 0, FALSE),
                 f, x, x.dst)

ResetSkipWriteRead ==
    /\ Idle
    /\ \E write \in WriteArgs, read \in ReadArgs :
       \E f \in FaultsIf(write = ProbeWrite /\ read = ProbeRead,
                         reset_skip_write_read(Wire0(NoFault), write,
                                               read).c.n) :
       \E x \in {reset_skip_write_read(Wire0(f), write, read)} :
          Commit(Op("reset_skip_write_read", <<>>, write, read, 0, FALSE),
                 f, x, x.dst)

ResetSkipReadOnly ==
    /\ Idle
    /\ \E read \in ReadArgs :
       \E f \in FaultsIf(read = ProbeRead,
                         reset_skip_read_only(Wire0(NoFault), read).c.n) :
       \E x \in {reset_skip_read_only(Wire0(f), read)} :
          Commit(Op("reset_skip_read_only", <<>>, <<>>, read, 0, FALSE),
                 f, x, x.dst)

ResetSkipWriteOnly ==
    /\ Idle
    /\ \E write \in WriteArgs :
       \E f \in FaultsIf(write = ProbeWrite,
                         reset_skip_write_only(Wire0(NoFault), write).c.n) :
       \E x \in {reset_skip_write_only(Wire0(f), write)} :
          Commit(Op("reset_skip_write_only", <<>>, write, <<>>, 0, FALSE),
                 f, x, x.dst)

FaultySearchNext ==
    /\ Idle
    /\ \E f \in FaultsIf(TRUE, search_next(Wire0(NoFault), cursor).c.n) :
          DoSearchNext(f)

MeasureTemperature ==
    /\ Idle
    /\ \E addr \in AddrArgs, resolution \in ResolutionArgs :
       \E dev \in {[address |-> addr, resolution |-> resolution]} :
       \E f \in FaultsIf(addr = ProbeAddr /\ resolution = 127,
                         measure_temperature(Wire0(NoFault), dev).c.n) :
       \E x \in {measure_temperature(Wire0(f), dev)} :
          Commit(Op("measure_temperature", addr, <<>>, <<>>, resolution,
                    FALSE), f, x, <<>>)

InitLine ==
    /\ bus \in {{}, Roms}
    /\ env \in [lowPolls : {MaxRise}, presence : PresenceOf(bus),
                data : {<<FALSE, TRUE, TRUE>>}]
    /\ parasite_mode \in BOOLEAN
    /\ cursor = DeviceSearch_new
    /\ before = DeviceSearch_new
    /\ op = NoOp("idle")
    /\ fault = NoFault
    /\ result = NoResult
    /\ log = <<>>
    /\ line = Quiet
    /\ buf = <<>>
    /\ found = <<>>
    /\ stable = TRUE
    /\ calls = 0

NextLine ==
    \/ Reset \/ ResetPresence
    \/ ReadBit \/ WriteBit \/ ReadByte \/ WriteByte \/ WriteCommand
    \/ ReadBytes \/ WriteBytes
    \/ Select \/ Skip
    \/ ResetWriteRead \/ ResetReadOnly \/ ResetWriteOnly
    \/ ResetSelectWriteRead \/ ResetSelectReadOnly \/ ResetSelectWriteOnly
    \/ ResetSkipWriteRead \/ ResetSkipReadOnly \/ ResetSkipWriteOnly
    \/ FaultySearchNext
    \/ MeasureTemperature

SpecLine == InitLine /\ [][NextLine]_vars

(***************************************************************************)
(* Device level calls on a bus with one device: Address, Ds18b20 and the   *)
(* rewritable tokens.  `data` is what the device answers in the read slots *)
(* of its function phase.                                                  *)
(***************************************************************************)
BitsOf(bytes) ==
    [k \in 1..(8 * Len(bytes)) |->
        BitOf(bytes[((k - 1) \div 8) + 1], (k - 1) % 8) = 1]

\* A thermometer and a token with a good ROM CRC, and one of each with a
\* bad one.
DevicePool == {RomPool[1], RomPool[2], RomPool[3], RomPool[7]}

WithCrc(payload) == Append(payload, compute_partial_crc8(0, payload))

\* Scratchpads a DS18B20 may answer: good ones, one with a wrong CRC byte,
\* a dead line, and ones whose last byte is the CRC of ROM and payload.
Payloads == {<<145, 1, 75, 70, 127, 255, 15, 16>>,
             <<111, 254, 75, 70, 127, 255, 1, 16>>,
             <<0, 0, 0, 0, 0, 0, 0, 0>>}
Scratchpads ==
    {WithCrc(p) : p \in Payloads}
    \cup {Append(p, 165) : p \in Payloads}
    \cup {[i \in 1..9 |-> 255]}
    \cup {Append(p, compute_crc8(d, p)) : p \in Payloads, d \in DevicePool}

\* Answers of a token to the two lock readbacks and to ReadStatus.
Readbacks ==
    {<<b1, b2, t, 255>> :
        b1 \in {254, 255}, b2 \in {254, 0},
        t \in {compute_partial_crc8(0, <<ReadStatus, 0, 0>>), 0}}

\* Echoes of a TM2004 to the 8 writes of address a, the one at position bad
\* and the one after it wrong (bad = BYTES: all good).
Echoes(a, bad) ==
    [i \in 1..BYTES |->
        Xor8(compute_partial_crc8(0, <<Tm2004_WriteRom, i - 1, 0, a[i]>>),
             IF i - 1 = bad \/ i - 2 = bad THEN 1 ELSE 0)]

WriteAddrs == {RomPool[1], RomPool[5]}

DataArgs ==
    {BitsOf(s) : s \in Scratchpads}
    \cup {BitsOf(r) : r \in Readbacks}
    \cup {BitsOf(Echoes(a, bad)) : a \in WriteAddrs, bad \in 0..BYTES}

InitDevice ==
    /\ bus \in {{d} : d \in DevicePool}
    /\ env \in [lowPolls : {0}, presence : {Pulse(2)}, data : DataArgs]
    /\ parasite_mode \in BOOLEAN
    /\ cursor = DeviceSearch_new
    /\ before = DeviceSearch_new
    /\ op = NoOp("idle")
    /\ fault = NoFault
    /\ result = NoResult
    /\ log = <<>>
    /\ line = Quiet
    /\ buf = <<>>
    /\ found = <<>>
    /\ stable = TRUE
    /\ calls = 0

ReadTemperature ==
    /\ Idle
    /\ \E addr \in bus \cup {RomPool[3]} :
       \E dev \in {[address |-> addr, resolution |-> 127]} :
       \E x \in {read_temperature(Wire0(NoFault), dev)} :
          Commit(Op("read_temperature", addr, <<>>, <<>>, 0, FALSE),
                 NoFault, x, <<>>)

ReadSingle ==
    /\ Idle
    /\ \E address \in {Zeros, RomPool[5]} :
       \E x \in {read_single(Wire0(NoFault), address)} :
          Commit(Op("read_single", address, <<>>, <<>>, 0, FALSE),
                 NoFault, x, x.dst)

GetSingle ==
    /\ Idle
    /\ \E x \in {get_single(Wire0(NoFault))} :
          Commit(NoOp("get_single"), NoFault, x, <<>>)

DetectType ==
    /\ Idle
    /\ \E x \in {detect_type(Wire0(NoFault))} :
          Commit(NoOp("detect_type"), NoFault, x, <<>>)

WriteAddress ==
    /\ Idle
    /\ \E addr \in WriteAddrs, type_ \in Ds1990Type :
       \E x \in {write_address(Wire0(NoFault), [address |-> addr], type_)} :
          Commit(Op("write_address", addr, <<>>, <<>>, type_, FALSE),
                 NoFault, x, <<>>)

\* A GPIO fault half way through the calls of an operation that makes n.
MidFaults(n) ==
    IF n < 2 THEN {NoFault}
    ELSE {NoFault, [at |-> n \div 2, err |-> <<"E", 1>>]}

WriteAddressRw1990 ==
    /\ Idle
    /\ \E addr \in WriteAddrs, type_ \in Ds1990Type :
       \E dev \in {[address |-> addr]} :
       \E f \in MidFaults(write_address_rw1990(Wire0(NoFault), dev, type_).c.n) :
       \E x \in {write_address_rw1990(Wire0(f), dev, type_)} :
          Commit(Op("write_address_rw1990", addr, <<>>, <<>>, type_, FALSE),
                 f, x, <<>>)

WriteAddressTm2004 ==
    /\ Idle
    /\ \E addr \in WriteAddrs :
       \E x \in {write_address_tm2004(Wire0(NoFault), [address |-> addr])} :
          Commit(Op("write_address_tm2004", addr, <<>>, <<>>, "Tm2004", FALSE),
                 NoFault, x, <<>>)

NextDevice ==
    \/ ReadTemperature \/ ReadSingle \/ GetSingle
    \/ DetectType
    \/ WriteAddress \/ WriteAddressRw1990 \/ WriteAddressTm2004

SpecDevice == InitDevice /\ [][NextDevice]_vars

(***************************************************************************)
(* split_temp applied to every raw value, by a build with and one without  *)
(* overflow checks.                                                        *)
(***************************************************************************)
RawTemps == 0..(Pow2(16) - 1)

InitTemp ==
    /\ bus = {}
    /\ env = [lowPolls |-> 0, presence |-> NoPulse, data |-> <<TRUE>>]
    /\ parasite_mode = FALSE
    /\ cursor = DeviceSearch_new
    /\ before = DeviceSearch_new
    /\ op = NoOp("idle")
    /\ fault = NoFault
    /\ result = NoResult
    /\ log = <<>>
    /\ line = Quiet
    /\ buf = <<>>
    /\ found = <<>>
    /\ stable = TRUE
    /\ calls = 0

SplitTemp ==
    /\ Idle
    /\ \E temperature \in RawTemps, overflow_checks \in BOOLEAN :
          /\ op' = Op("split_temp", <<>>, <<>>, <<>>, temperature,
                      overflow_checks)
          /\ result' = split_temp(temperature, overflow_checks)
    /\ UNCHANGED <<bus, env, parasite_mode, cursor, before, fault, log, line,
                   buf, found, stable, calls>>

NextTemp == SplitTemp

SpecTemp == InitTemp /\ [][NextTemp]_vars

(***************************************************************************)
(* Addresses written as text and parsed.  A caller formats an address and  *)
(* parses the text, or parses a text written by hand: the 16 digits of an  *)
(* address in lower or upper case, cut after some characters, one of them  *)
(* replaced by another character, and spaced in pairs by a separator.      *)
(***************************************************************************)
TextAddresses == {[i \in 1..BYTES |-> (b + 37 * (i - 1)) % 256] : b \in 0..255}
HandAddresses == {RomPool[1], <<171, 205, 239, 254, 220, 186, 10, 159>>}

LowerDigits == <<"0", "1", "2", "3", "4", "5", "6", "7", "8", "9",
                 "a", "b", "c", "d", "e", "f">>
UpperDigits == <<"0", "1", "2", "3", "4", "5", "6", "7", "8", "9",
                 "A", "B", "C", "D", "E", "F">>
DigitsOf(a, upper) ==
    [k \in 1..(2 * Len(a)) |->
        (IF upper THEN UpperDigits ELSE LowerDigits)
            [(IF k % 2 = 1 THEN a[(k + 1) \div 2] \div 16
              ELSE a[k \div 2] % 16) + 1]]

Separators == {<<>>, <<" ">>, <<":">>}
RECURSIVE Spaced(_, _)
Spaced(d, sep) ==
    IF Len(d) <= 2 THEN d
    ELSE <<d[1], d[2]>> \o sep \o Spaced(Tail(Tail(d)), sep)

Spelling(a, upper, sep) == Spaced(DigitsOf(a, upper), sep)

OtherChars == {"/", "@", "G", "g"}
\* The digits d and two more, cut after n characters, the k-th replaced.
Mangled(d, n, k, ch) ==
    [j \in 1..n |-> IF j = k THEN ch ELSE (d \o <<"0", "0">>)[j]]

HandTexts ==
    {[addr |-> a, text |-> Spelling(a, upper, sep)] :
        a \in TextAddresses, upper \in BOOLEAN, sep \in Separators}
    \cup
    {[addr |-> a, text |-> Spaced(Mangled(DigitsOf(a, FALSE), n, k, ch), sep)] :
        a \in HandAddresses, n \in 0..(2 * BYTES + 2),
        k \in 1..(2 * BYTES + 2), ch \in OtherChars, sep \in Separators}

InitText ==
    /\ bus = {}
    /\ env = [lowPolls |-> 0, presence |-> NoPulse, data |-> <<TRUE>>]
    /\ parasite_mode = FALSE
    /\ cursor = DeviceSearch_new
    /\ before = DeviceSearch_new
    /\ op = NoOp("idle")
    /\ fault = NoFault
    /\ result = NoResult
    /\ log = <<>>
    /\ line = Quiet
    /\ buf = <<>>
    /\ found = <<>>
    /\ stable = TRUE
    /\ calls = 0

\* a.to_string(): op.addr is a, buf the text.
Fmt ==
    /\ Idle
    /\ \E a \in TextAddresses :
          /\ op' = Op("fmt", a, <<>>, <<>>, 0, FALSE)
          /\ buf' = fmt(a)
    /\ UNCHANGED <<bus, env, parasite_mode, cursor, before, fault, result,
                   log, line, found, stable, calls>>

\* The text made by to_string parsed: op.addr is the address formatted,
\* op.write the text, op.bit says that to_string made it.
FromStrFmt ==
    /\ op.name = "fmt"
    /\ op' = Op("from_str", op.addr, buf, <<>>, 0, TRUE)
    /\ result' = from_str(buf)
    /\ UNCHANGED <<bus, env, parasite_mode, cursor, before, fault, log, line,
                   buf, found, stable, calls>>

\* A text written by hand parsed: op.addr is the address its writer
\* started from.
FromStr ==
    /\ Idle
    /\ \E t \in HandTexts :
          /\ op' = Op("from_str", t.addr, t.text, <<>>, 0, FALSE)
          /\ result' = from_str(t.text)
    /\ UNCHANGED <<bus, env, parasite_mode, cursor, before, fault, log, line,
                   buf, found, stable, calls>>

NextText == Fmt \/ FromStrFmt \/ FromStr

SpecText == InitText /\ [][NextText]_vars

(***************************************************************************)
(* compute_partial_crc8 applied to short byte strings: to the empty one    *)
(* with every seed, to the others with some seeds.                         *)
(***************************************************************************)
MaxCrcLen == 3
CrcBytes == {0, 1, 140, 170, 255}
CrcSeeds == {0, 86, 255}
CrcData == UNION {[1..n -> CrcBytes] : n \in 0..MaxCrcLen}

ComputePartialCrc8 ==
    /\ Idle
    /\ \E data \in CrcData :
       \E crc \in IF data = <<>> THEN 0..255 ELSE CrcSeeds :
          /\ op' = Op("compute_partial_crc8", <<>>, data, <<>>, crc, FALSE)
          /\ result' = Ok(compute_partial_crc8(crc, data))
    /\ UNCHANGED <<bus, env, parasite_mode, cursor, before, fault, log, line,
                   buf, found, stable, calls>>

NextCrc == ComputePartialCrc8

SpecCrc == InitTemp /\ [][NextCrc]_vars

(***************************************************************************)
(* Enumeration over a bus whose devices are exchanged between calls, the   *)
(* devices having ROMs that part in their first bits.                      *)
(***************************************************************************)
NearRoms == {WithCrc(<<f, 0, 0, 0, 0, 0, 0>>) : f \in {16, 17, 18}}

InitSwap ==
    /\ bus \in SUBSET NearRoms
    /\ env \in [lowPolls : {0}, presence : PresenceOf(bus), data : {<<TRUE>>}]
    /\ parasite_mode = FALSE
    /\ cursor = DeviceSearch_new
    /\ before = DeviceSearch_new
    /\ op = NoOp("new")
    /\ fault = NoFault
    /\ result = NoResult
    /\ log = <<>>
    /\ line = Quiet
    /\ buf = <<>>
    /\ found = <<>>
    /\ stable = TRUE
    /\ calls = 0

Swap == \E b \in (SUBSET NearRoms) \ {bus} : Rewire(b)

NextSwap == SearchNext \/ Swap

SpecSwap == InitSwap /\ [][NextSwap]_vars

(***************************************************************************)
(* Enumeration of a bus that does not change, some of the calls meeting a  *)
(* GPIO fault, after which the caller goes on with the same cursor.        *)
(***************************************************************************)
\* A fault at the first, the middle or the last BusLine call of an
\* operation that makes n of them.
SomeFaults(n) == {[at |-> k, err |-> <<"E", 1>>] : k \in {1, n \div 2, n} \ {0}}

InitResume ==
    /\ bus \in SUBSET Roms
    /\ env \in [lowPolls : {0}, presence : {IF bus = {} THEN NoPulse ELSE Pulse(2)},
                data : {<<TRUE>>}]
    /\ parasite_mode = FALSE
    /\ cursor = DeviceSearch_new
    /\ before = DeviceSearch_new
    /\ op = NoOp("new")
    /\ fault = NoFault
    /\ result = NoResult
    /\ log = <<>>
    /\ line = Quiet
    /\ buf = <<>>
    /\ found = <<>>
    /\ stable = TRUE
    /\ calls = 0

SearchNextFault ==
    /\ calls < MaxCalls
    /\ \E f \in SomeFaults(search_next(Wire0(NoFault), cursor).c.n) :
          DoSearchNext(f)

NextResume == SearchNext \/ SearchNextFault

SpecResume == InitResume /\ [][NextResume]_vars

(***************************************************************************)
(* The compound helpers on a line that rises at once or not within the     *)
(* polls of the watchdog, with and without devices that answer the reset.  *)
(***************************************************************************)
InitHelper ==
    /\ bus \in {{}, Roms}
    /\ env \in [lowPolls : {0, WatchdogPolls}, presence : PresenceOf(bus),
                data : {<<FALSE, TRUE, TRUE>>}]
    /\ parasite_mode \in BOOLEAN
    /\ cursor = DeviceSearch_new
    /\ before = DeviceSearch_new
    /\ op = NoOp("idle")
    /\ fault = NoFault
    /\ result = NoResult
    /\ log = <<>>
    /\ line = Quiet
    /\ buf = <<>>
    /\ found = <<>>
    /\ stable = TRUE
    /\ calls = 0

NextHelper ==
    \/ ResetWriteRead \/ ResetReadOnly \/ ResetWriteOnly
    \/ ResetSelectWriteRead \/ ResetSelectReadOnly \/ ResetSelectWriteOnly
    \/ ResetSkipWriteRead \/ ResetSkipReadOnly \/ ResetSkipWriteOnly

SpecHelper == InitHelper /\ [][NextHelper]_vars

(***************************************************************************)
(* Enumeration with a cursor made for one family.                          *)
(***************************************************************************)
Families == {d[1] : d \in Roms}

InitFamily ==
    /\ bus \in SUBSET Roms
    /\ env \in [lowPolls : 0..MaxRise, presence : PresenceOf(bus),
                data : {<<TRUE>>}]
    /\ parasite_mode = FALSE
    /\ cursor \in {new_for_family(f) : f \in Families}
    /\ before = DeviceSearch_new
    /\ op = NoOp("new_for_family")
    /\ fault = NoFault
    /\ result = NoResult
    /\ log = <<>>
    /\ line = Quiet
    /\ buf = <<>>
    /\ found = <<>>
    /\ stable = TRUE
    /\ calls = 0

NewForFamily ==
    /\ cursor' \in {new_for_family(f) : f \in Families}
    /\ before' = cursor
    /\ op' = NoOp("new_for_family")
    /\ fault' = NoFault
    /\ result' = NoResult
    /\ log' = <<>>
    /\ line' = Quiet
    /\ buf' = <<>>
    /\ found' = <<>>
    /\ stable' = TRUE
    /\ calls' = 0
    /\ UNCHANGED <<bus, env, parasite_mode>>

NextFamily == SearchNext \/ NewForFamily

SpecFamily == InitFamily /\ [][NextFamily]_vars

(***************************************************************************)
(* Properties.                                                             *)
(***************************************************************************)
Searched == op.name = "search_next"
Reported == {found[i] : i \in DOMAIN found}

\* The BusLine calls in a log, and the last of them.
BusLineCalls(l) == {i \in DOMAIN l : l[i][1] # "delay"}
CallsOf(l, name) == {i \in DOMAIN l : l[i][1] = name}
LastCall(l) ==
    IF BusLineCalls(l) = {} THEN "none"
    ELSE l[CHOOSE i \in BusLineCalls(l) :
               \A j \in BusLineCalls(l) : j <= i][1]

\* C1: on a bus that does not change, stepping a fresh cursor with
\* search_next reports only devices of the bus, none of them twice, and
\* when it answers None every device of the bus has been reported.
C1_EnumerationComplete ==
    (stable /\ Searched) =>
        /\ Reported \subseteq bus
        /\ Cardinality(Reported) = Len(found)
        /\ result.ok
        /\ (result = Ok(NoAddress) => Reported = bus)

C1_Witness ==
    /\ stable /\ Searched
    /\ result = Ok(NoAddress)
    /\ Cardinality(bus) = NumRoms
    /\ Len(found) = NumRoms

\* C2: every address search_next returns is the ROM of a device that was on
\* the bus during that call, also when devices joined or left between calls.
C2_ReturnedIsPresent ==
    (Searched /\ IsSome(result)) => result.v[2] \in bus

\* C3: with n >= 1 devices on an unchanging bus a fresh cursor answers Some
\* on each of the first n calls and None on call n + 1; a call on a cursor
\* in state End answers None, leaves the cursor alone and does not touch the
\* wire.
C3_Terminates ==
    /\ (stable /\ Searched /\ bus # {}) =>
          /\ (calls <= Cardinality(bus) => IsSome(result))
          /\ (calls > Cardinality(bus) => result = Ok(NoAddress))
    /\ (Searched /\ before.state = "End") =>
          /\ result = Ok(NoAddress)
          /\ log = <<>>
          /\ cursor = before

C3_Witness ==
    /\ stable /\ Searched
    /\ Cardinality(bus) >= 2
    /\ calls = Cardinality(bus) + 2
    /\ before.state = "End"
    /\ log = <<>>

\* C6: on a bus without devices search_next answers Ok(None), leaves the
\* cursor as it was, and the only pulse on the wire is the reset pulse (a
\* cursor in state End does not even reset): no opcode, no read slot.
C6_EmptyBus ==
    (Searched /\ bus = {}) =>
        /\ result = Ok(NoAddress)
        /\ cursor = before
        /\ line.pulses = IF before.state = "End" THEN <<>> ELSE <<480>>
        /\ CallsOf(log, "is_high") # {} => before.state # "End"

C6_Witness ==
    /\ Searched /\ bus = {}
    /\ before.discrepancies # Zeros
    /\ line.pulses = <<480>>
    /\ result = Ok(NoAddress)

C5_ResetPresence ==
    op.name = "reset_presence" =>
        \A x \in {reset(Wire0(fault))} :
            /\ log = x.c.log
            /\ (result.ok /\ result.v = FALSE)
                  <=> (~x.r.ok /\ x.r.e = NoPresence)
            /\ (result.ok /\ result.v = TRUE) <=> x.r.ok
            /\ (~x.r.ok /\ x.r.e # NoPresence) => result = x.r

C5_Witness ==
    /\ op.name = "reset_presence"
    /\ result.ok /\ result.v = FALSE
    /\ env.lowPolls > 0
    /\ Cardinality(CallsOf(log, "is_low")) = PresenceSamples

\* The operations whose error type is Error<E>, and those whose error type
\* is the E of the line itself.
WrappingOps ==
    {"reset", "reset_presence", "select", "skip", "search_next",
     "reset_write_read", "reset_read_only", "reset_write_only",
     "reset_select_write_read", "reset_select_read_only",
     "reset_select_write_only", "reset_skip_write_read",
     "reset_skip_read_only", "reset_skip_write_only", "measure_temperature"}
RawOps ==
    {"read_bit", "write_bit", "read_byte", "write_byte", "write_command",
     "read_bytes", "write_bytes"}

IsPortError(r, e) == ~r.ok /\ r.e[1] = "PortError" /\ r.e[2] = e
IsRawError(r, e) == ~r.ok /\ r.e[1] = "E" /\ r.e = e

\* The failing BusLine call is the last call of the operation.
FailedFast ==
    /\ Cardinality(BusLineCalls(log)) = fault.at
    /\ \E i \in DOMAIN log :
          /\ log[i][1] # "delay" /\ log[i][2] = -1
          /\ \A j \in 1..(i - 1) : log[j][2] # -1
          /\ \A j \in (i + 1)..Len(log) : log[j][1] = "delay"

\* C7 as stated: an operation stops at the first BusLine call that fails
\* with e, makes no further BusLine call and answers PortError(e), whatever
\* the operation.
C7_FailFastPortError ==
    (fault.at > 0 /\ op.name \in WrappingOps \cup RawOps) =>
        FailedFast /\ IsPortError(result, fault.err)

\* C7 amended: an operation stops at the first BusLine call that fails with
\* e and makes no further BusLine call; reset, reset_presence, select, skip,
\* the compound helpers, search_next and measure_temperature answer
\* PortError(e), while the bit, byte and bytes transfers and write_command
\* answer the bare e.
C7_FailFast ==
    (fault.at > 0 /\ op.name \in WrappingOps \cup RawOps) =>
        /\ FailedFast
        /\ op.name \in WrappingOps => IsPortError(result, fault.err)
        /\ op.name \in RawOps => IsRawError(result, fault.err)

C7_Witness ==
    /\ Searched
    /\ fault = [at |-> 300, err |-> <<"E", 2>>]
    /\ result = Err(PortError(<<"E", 2>>))
    /\ Cardinality(BusLineCalls(log)) = 300

\* C8: when write_bytes, select or skip answers Ok, the last thing the
\* master did to the line is a release if parasite_mode is set, and a drive
\* low if it is not.
C8_ParasiteHold ==
    (op.name \in {"write_bytes", "select", "skip"} /\ result.ok) =>
        IF parasite_mode
        THEN LastCall(log) \in {"set_high", "none"} /\ ~line.low
        ELSE LastCall(log) = "set_low" /\ line.low

\* What the slaves see of a transfer: a reset pulse of 480 us, a write slot
\* of 10 us (1) or 65 us (0) per bit, least significant bit first, and a
\* read slot of 3 us per bit read.
BytePulses(byte) == [k \in 1..8 |-> IF BitOf(byte, k - 1) = 1 THEN 10 ELSE 65]
RECURSIVE WritePulses(_)
WritePulses(bytes) ==
    IF bytes = <<>> THEN <<>>
    ELSE BytePulses(Head(bytes)) \o WritePulses(Tail(bytes))
ReadPulses(n) == [k \in 1..(8 * n) |-> 3]

SelectOps == {"reset_select_write_read", "reset_select_read_only",
              "reset_select_write_only"}
SkipOps == {"reset_skip_write_read", "reset_skip_read_only",
            "reset_skip_write_only"}
PlainOps == {"reset_write_read", "reset_read_only", "reset_write_only"}

Addressing(o) ==
    IF o.name \in SelectOps THEN <<MatchRom>> \o o.addr
    ELSE IF o.name \in SkipOps THEN <<SkipRom>>
    ELSE <<>>

\* C9: a compound helper that answers Ok has put on the wire one reset,
\* then one select (0x55 and the 8 address bytes) or one SkipRom (0xCC) or
\* nothing, then the write bytes, then one read slot per bit of read, each
\* once and in that order.
C9_CompoundOrder ==
    (op.name \in SelectOps \cup SkipOps \cup PlainOps /\ result.ok) =>
        line.pulses = <<480>> \o WritePulses(Addressing(op))
                              \o WritePulses(op.write)
                              \o ReadPulses(Len(op.read))

\* C10: measure_temperature that answers Ok has put on the wire one reset
\* and the ten bytes 0x55, address[0..8], 0x44, no read slot, and answers
\* the resolution of the device.
C10_MeasureTemperature ==
    (op.name = "measure_temperature" /\ result.ok) =>
        /\ line.pulses = <<480>> \o WritePulses(<<MatchRom>> \o op.addr
                                                  \o <<Convert>>)
        /\ result.v = op.byte

\* The values the master sampled with is_high, in order, and the last n
\* bytes they make up, least significant bit first.
IsSample(e) == e[1] = "is_high"
Samples(l) == SelectSeq(l, IsSample)
SampledBytes(l, n) ==
    LET smp == Samples(l)
        off == Len(smp) - 8 * n
    IN  [k \in 1..n |->
            smp[off + 8 * k - 7][2] + 2 * smp[off + 8 * k - 6][2]
            + 4 * smp[off + 8 * k - 5][2] + 8 * smp[off + 8 * k - 4][2]
            + 16 * smp[off + 8 * k - 3][2] + 32 * smp[off + 8 * k - 2][2]
            + 64 * smp[off + 8 * k - 1][2] + 128 * smp[off + 8 * k][2]]

\* C11: read_temperature answers Ok(s[0] | s[1] << 8) exactly when the CRC-8
\* of the first 8 bytes of the scratchpad s it read equals s[8], and
\* CrcMismatch otherwise, whatever the address of the wrapper.
C11_ScratchpadCrc ==
    (op.name = "read_temperature"
        /\ (result.ok \/ result.e[1] = "CrcMismatch")) =>
        \A s \in {SampledBytes(log, 9)} :
            IF compute_partial_crc8(0, SubSeq(s, 1, 8)) = s[9]
            THEN result.ok /\ result.v = s[1] + 256 * s[2]
            ELSE ~result.ok

\* C12: with one device of ROM r on the bus get_single answers r and
\* read_single stores r; the wire carries one reset, the byte 0x33 and 64
\* read slots, and the bytes obtained are the 64 samples taken, least
\* significant bit first.
C12_SingleRom ==
    (op.name \in {"get_single", "read_single"}) =>
        \A r \in bus :
        \A a \in {IF op.name = "get_single" THEN result.v ELSE buf} :
            /\ result.ok
            /\ a = r
            /\ a = SampledBytes(log, BYTES)
            /\ line.pulses = <<480>> \o WritePulses(<<ReadRom>>)
                                     \o ReadPulses(BYTES)

C12_Witness ==
    /\ op.name = "read_single"
    /\ op.addr = RomPool[5]
    /\ bus = {RomPool[3]}
    /\ buf = RomPool[3]
    /\ result.ok

\* C13: on a stable bus that holds a device of family f and devices of
\* other families, the first search_next on a cursor made by
\* new_for_family(f) answers an address of family f.
C13_FamilyFirst ==
    (stable /\ Searched /\ calls = 1 /\ before.state = "Initialized") =>
        \A f \in {before.address[1]} :
            ((\E d \in bus : d[1] = f) /\ (\E d \in bus : d[1] # f)) =>
                IsSome(result) /\ result.v[2][1] = f

\* Byte k (from 0) of what the device on the bus answers in the read slots
\* of its function phase.
DataByte(k) ==
    LET bit(j) == IF env.data[((8 * k + j) % Len(env.data)) + 1] THEN 1 ELSE 0
    IN  bit(0) + 2 * bit(1) + 4 * bit(2) + 8 * bit(3) + 16 * bit(4)
        + 32 * bit(5) + 64 * bit(6) + 128 * bit(7)

\* A lock attempt on the wire: reset, the set command, one bit, reset, the
\* get command and one byte read.
LockPulses(set_cmd, get_cmd, bit) ==
    <<480>> \o WritePulses(<<set_cmd>>) \o <<IF bit THEN 10 ELSE 65>>
            \o <<480>> \o WritePulses(<<get_cmd>>) \o ReadPulses(1)
Lock1 == {LockPulses(209, 177, b) : b \in BOOLEAN}
Lock2 == {LockPulses(29, 30, b) : b \in BOOLEAN}
Lock3 == {LockPulses(193, 177, b) : b \in BOOLEAN}
StatusPulses == <<480>> \o WritePulses(<<170, 0, 0>>) \o ReadPulses(2)

\* C14: detect_type answers Rw1990p1 exactly when the readback of the first
\* lock attempt (0xD1, a bit, 0xB1) is 0xFE; else Rw1990p2 exactly when the
\* readback of the second (0x1D, a bit, 0x1E) is 0xFE; else Tm2004 exactly
\* when the first byte answered to [0xAA, 0, 0] is the CRC-8 of these three
\* bytes; else Tm01.  The second attempt is on the wire only after the
\* first failed, the status request only after both failed.
C14_DetectOrder ==
    op.name = "detect_type" =>
        /\ result.ok
        /\ IF DataByte(0) = 254
           THEN /\ result.v = "Rw1990p1"
                /\ \E p \in Lock1, u \in Lock1 : line.pulses = p \o u
           ELSE IF DataByte(1) = 254
           THEN /\ result.v = "Rw1990p2"
                /\ \E p \in Lock1, q \in Lock2, u \in Lock2 :
                      line.pulses = p \o q \o u
           ELSE /\ result.v =
                      IF DataByte(2) = compute_partial_crc8(0, <<170, 0, 0>>)
                      THEN "Tm2004" ELSE "Tm01"
                /\ \E p \in Lock1, q \in Lock2 :
                      line.pulses = p \o q \o StatusPulses \o <<480>>

C14_Witness ==
    /\ op.name = "detect_type"
    /\ DataByte(0) # 254 /\ DataByte(1) # 254
    /\ result = Ok("Tm2004")

\* The alternate write slots of the bytes of an address, byte 0 first and
\* least significant bit first: a low of 6 us for a 1, of 60 us for a 0.
RwPulses(bytes, invert) ==
    [k \in 1..(8 * Len(bytes)) |->
        IF BitsOf(bytes)[k] # invert THEN 6 ELSE 60]

RwTypes == {"Rw1990p1", "Rw1990p2", "Tm01"}
LockOf(type_) ==
    CASE type_ = "Rw1990p1" -> Lock1 [] type_ = "Rw1990p2" -> Lock2
      [] OTHER -> Lock3
RwWrites == {"write_address", "write_address_rw1990"}

TmCmd(i) == <<60, i, 0, op.addr[i + 1]>>
TmCrc(i) == compute_partial_crc8(0, TmCmd(i))
TmPulses(i) == <<480>> \o WritePulses(TmCmd(i)) \o ReadPulses(1)
RECURSIVE TmPulsesTo(_)
TmPulsesTo(i) == IF i < 0 THEN <<>> ELSE TmPulsesTo(i - 1) \o TmPulses(i)

\* The first byte whose echo is not the CRC (BYTES: none).
TmFirstBad ==
    IF \A i \in 0..(BYTES - 1) : DataByte(i) = TmCrc(i) THEN BYTES
    ELSE CHOOSE i \in 0..(BYTES - 1) :
            /\ DataByte(i) # TmCrc(i)
            /\ \A j \in 0..(i - 1) : DataByte(j) = TmCrc(j)

TmWrite ==
    \/ op.name = "write_address_tm2004"
    \/ op.name = "write_address" /\ op.byte = "Tm2004"

\* C16: write_address for Tm2004 sends, for i = 0..7, a reset, the bytes
\* [0x3C, i, 0x00, address[i]] and reads one byte, which it compares with
\* the CRC-8 of the 4 bytes.  At the first i whose echo differs it returns
\* CrcMismatch, nothing more goes on the wire and no program pulse is
\* made; the program pulse is made exactly when the 8 echoes matched.
C16_TmWrite ==
    TmWrite =>
        \A bad \in {TmFirstBad} :
            IF bad = BYTES
            THEN /\ result = Ok(Unit)
                 /\ line.pulses = TmPulsesTo(BYTES - 1) \o <<6>>
            ELSE /\ result = Err(CrcMismatch(TmCrc(bad), DataByte(bad)))
                 /\ line.pulses = TmPulsesTo(bad)

C16_Witness ==
    /\ op.name = "write_address" /\ op.byte = "Tm2004"
    /\ TmFirstBad = 3
    /\ ~result.ok /\ result.e[1] = "CrcMismatch"

ReadOnlyTypes == {"Ds1990", "Cyfral", "Metacom"}

\* C17: write_address, and write_address_rw1990 called directly, with the
\* variant Ds1990, Cyfral or Metacom return NotSupport and nothing happens
\* on the wire.
C17_NotSupport ==
    (op.name \in RwWrites /\ op.byte \in ReadOnlyTypes) =>
        /\ result = Err(NotSupport)
        /\ log = <<>>
        /\ line = Quiet

C17_Witness ==
    /\ op.name = "write_address_rw1990" /\ op.byte = "Cyfral"
    /\ result = Err(NotSupport)

TempVectors ==
    {<<2000, 125, 0>>, <<1360, 85, 0>>, <<401, 25, 625>>, <<162, 10, 1250>>,
     <<8, 0, 5000>>, <<0, 0, 0>>, <<65528, 0, -5000>>, <<65374, -10, -1250>>,
     <<65135, -25, -625>>, <<64656, -55, 0>>}

\* C18: for every raw value x of 16 bits split_temp(x) returns an integer
\* part and a fraction of i16 that never have opposite signs and with
\* integer + fraction / 10000 = (x as i16) / 16, x = 0x8000 included; the
\* vectors of the test hold.
C18_SplitTemp ==
    op.name = "split_temp" =>
        /\ result.ok
        /\ \A integer \in {result.v[1]}, fraction \in {result.v[2]} :
              /\ integer = AsI16(integer) /\ fraction = AsI16(fraction)
              /\ ~(integer > 0 /\ fraction < 0)
              /\ ~(integer < 0 /\ fraction > 0)
              /\ 10000 * integer + fraction = 625 * AsI16(op.byte)
              /\ \A t \in TempVectors :
                    op.byte = t[1] => integer = t[2] /\ fraction = t[3]

\* C19: the text to_string makes of an address parses to that address, and
\* the 16 hex digits of an address parse to it when written without
\* separators, with spaces or with ':' between the bytes, in lower or in
\* upper case.
C19_RoundTrip ==
    op.name = "from_str" =>
        /\ op.bit => result = Ok(op.addr)
        /\ \A upper \in BOOLEAN, sep \in Separators :
              op.write = Spelling(op.addr, upper, sep) => result = Ok(op.addr)

C19_Witness ==
    /\ op.name = "from_str" /\ op.bit
    /\ op.addr = [i \in 1..BYTES |-> (171 + 37 * (i - 1)) % 256]
    /\ result = Ok(op.addr)

HexChars == {LowerDigits[i] : i \in 1..16} \cup {UpperDigits[i] : i \in 1..16}
NotSeparator(ch) == ch \notin {" ", ":"}
NonSep(s) == SelectSeq(s, NotSeparator)
NotHex(ch) == ch \notin HexChars
HexCount(s) == Len(s) - Len(SelectSeq(s, NotHex))
Least(a, b) == IF a < b THEN a ELSE b

\* C20: a text with fewer than 16 hex digits is answered NotEnough, and a
\* text with a character that is neither a hex digit nor a separator among
\* its first 16 characters that are not separators is answered Invalid.
C20_Classify ==
    op.name = "from_str" =>
        /\ HexCount(op.write) < 2 * BYTES => result = Err(NotEnough)
        /\ (\E j \in 1..Least(2 * BYTES, Len(NonSep(op.write))) :
               NotHex(NonSep(op.write)[j])) => result = Err(Invalid)

\* C20, amended: the characters that are not separators are read in pairs,
\* at most 8.  Invalid answers a text with a character that is not a hex
\* digit in one of its complete pairs; NotEnough answers any other text
\* with fewer than 16 such characters.
C20_ClassifyPairs ==
    op.name = "from_str" =>
        \A t \in {NonSep(op.write)} :
            IF \E j \in 1..(2 * Least(BYTES, Len(t) \div 2)) : NotHex(t[j])
            THEN result = Err(Invalid)
            ELSE IF Len(t) < 2 * BYTES THEN result = Err(NotEnough)
            ELSE result.ok

C20_Witness ==
    /\ op.name = "from_str"
    /\ Len(NonSep(op.write)) = 3 /\ NonSep(op.write)[3] = "g"
    /\ result = Err(NotEnough)

\* C21: a text whose characters that are not separators number more than
\* 16 is not accepted as an address.
C21_ExactLength ==
    (op.name = "from_str" /\ Len(NonSep(op.write)) > 2 * BYTES) => ~result.ok

\* C22: the CRC-8 is incremental: the CRC of a string is the CRC of its
\* tail seeded with the CRC of its head, wherever the string is cut, and
\* the CRC of the empty string is the seed, for every seed.
C22_Incremental ==
    op.name = "compute_partial_crc8" =>
        /\ op.write = <<>> => result.v = op.byte
        /\ \A k \in 0..Len(op.write) :
              result.v =
                 compute_partial_crc8(
                    compute_partial_crc8(op.byte, SubSeq(op.write, 1, k)),
                    SubSeq(op.write, k + 1, Len(op.write)))

C22_Witness ==
    /\ op.name = "compute_partial_crc8"
    /\ op.byte = 0 /\ op.write = <<170, 0, 0>>
    /\ result = Ok(156)

\* A discrepancy the last call recorded: a bit of discrepancies that is set
\* now and was not before.
NewDiscrepancy ==
    \E i \in 0..(BITS - 1) :
        is_bit_set(cursor.discrepancies, i) /\ ~is_bit_set(before.discrepancies, i)

\* C23: after a search_next that returned an address the state is End
\* exactly when the call recorded no new discrepancy and the
\* last_discrepancy computed at its start was None; else it is DeviceFound.
C23_EndState ==
    (Searched /\ IsSome(result)) =>
        /\ cursor.state \in {"End", "DeviceFound"}
        /\ cursor.state = "End" <=>
              (~NewDiscrepancy /\ last_discrepancy(before) = None)

\* C23, amended: the state is End exactly when the call recorded no new
\* discrepancy and the last_discrepancy computed again at its end, the bit
\* of the old one cleared, is None; else it is DeviceFound.
C23_EndStateNow ==
    (Searched /\ IsSome(result)) =>
        /\ cursor.state \in {"End", "DeviceFound"}
        /\ cursor.state = "End" <=>
              (~NewDiscrepancy /\ last_discrepancy(cursor) = None)

C23_Witness ==
    /\ Searched /\ IsSome(result)
    /\ last_discrepancy(before) # None
    /\ cursor.state = "End"

\* The pulses of a search pass behind the reset and the 8 slots of the
\* opcode: per bit position two read slots and a write slot.  PassReads
\* are the values the read slots sampled.
PassPulses == SubSeq(line.pulses, 10, Len(line.pulses))
IsReadPulse(w) == w = 3
ReadCount == Len(SelectSeq(PassPulses, IsReadPulse))
PassReads ==
    SubSeq(Samples(log), Len(Samples(log)) - ReadCount + 1, Len(Samples(log)))

\* C24: at every bit position of a search pass, the one equal to
\* last_discrepancy included, two read slots that both return 1 end the
\* pass: search_next returns None and writes no direction bit for the
\* position.
C24_AbortOnSilence ==
    (Searched /\ result.ok /\ Len(line.pulses) >= 9) =>
        \A j \in 0..(BITS - 1) :
            (/\ 2 * j + 2 <= ReadCount
             /\ PassReads[2 * j + 1][2] = 1
             /\ PassReads[2 * j + 2][2] = 1)
            => /\ result = Ok(NoAddress)
               /\ Len(PassPulses) = 3 * j + 2

\* C25: on a bus that does not change, a caller that goes on calling
\* search_next on the same cursor after calls that failed with a GPIO
\* error has, when None is returned, been given every device: none is
\* skipped.
C25_ResumeComplete ==
    (Searched /\ stable /\ result = Ok(NoAddress)) => bus \subseteq Reported

\* The calls of one write slot, of the 8 slots of a byte (least significant
\* bit first) and of the drive-low that may follow a byte.
SlotLog(high) ==
    << <<"set_low", 0>>, <<"delay", IF high THEN 10 ELSE 65>>,
       <<"set_high", 0>>, <<"delay", IF high THEN 55 ELSE 5>> >>
ByteLog(byte) ==
    SlotLog(BitOf(byte, 0) = 1) \o SlotLog(BitOf(byte, 1) = 1)
    \o SlotLog(BitOf(byte, 2) = 1) \o SlotLog(BitOf(byte, 3) = 1)
    \o SlotLog(BitOf(byte, 4) = 1) \o SlotLog(BitOf(byte, 5) = 1)
    \o SlotLog(BitOf(byte, 6) = 1) \o SlotLog(BitOf(byte, 7) = 1)
DriveLow == << <<"set_low", 0>> >>

RECURSIVE SelectLog(_, _)
\* The bytes given each followed by a drive-low, the last one only when
\* the flag is not set.
SelectLog(bytes, flag) ==
    IF bytes = <<>> THEN <<>>
    ELSE ByteLog(Head(bytes))
         \o (IF Len(bytes) = 1 /\ flag THEN <<>> ELSE DriveLow)
         \o SelectLog(Tail(bytes), flag)

\* C26: of the nine bytes select sends (0x55 and the address bytes 0..7)
\* each is followed by a drive-low, but for address byte 7 when the
\* driver's parasite_mode is set: after the opcode and the address bytes
\* 0..6 the line is driven low whatever the flag.
C26_SelectParasite ==
    (op.name = "select" /\ result.ok) =>
        log = SelectLog(<<85>> \o op.addr, parasite_mode)

\* C27: write_byte(b, p) makes exactly eight write slots that carry the
\* bits 0..7 of b in this order, each a drive-low (10 us for a 1, 65 us for
\* a 0) and a release; then one more drive-low when p is false, and no
\* further action on the line when p is true.
C27_WriteByte ==
    (op.name = "write_byte" /\ result.ok) =>
        /\ log = ByteLog(op.byte) \o (IF op.bit THEN <<>> ELSE DriveLow)
        /\ line.pulses = BytePulses(op.byte)
        /\ line.low = ~op.bit

C27_Witness ==
    /\ op.name = "write_byte" /\ op.byte = 68 /\ op.bit
    /\ result.ok
    /\ Len(log) = 32 /\ ~line.low

ReadingOps == {"reset_write_read", "reset_read_only",
               "reset_select_write_read", "reset_select_read_only",
               "reset_skip_write_read", "reset_skip_read_only"}

\* The line does not rise within the polls of the watchdog; the line rises
\* and no device pulls it low in the presence window.
LineStuck == env.lowPolls >= WatchdogPolls
NobodyHome == ~LineStuck /\ \A j \in 1..PresenceSamples : ~env.presence[j]

\* C28: when the reset at the start of a compound helper fails, with
\* WireFault or with NoPresence, the helper returns that error, makes no
\* write slot and no read slot, and leaves the read buffer of the caller
\* as it was.
C28_ResetFailed ==
    (op.name \in SelectOps \cup SkipOps \cup PlainOps /\ fault.at = 0) =>
        /\ LineStuck => result = Err(WireFault) /\ line.pulses = <<>>
        /\ NobodyHome => result = Err(NoPresence) /\ line.pulses = <<480>>
        /\ (LineStuck \/ NobodyHome) =>
              /\ op.name \in ReadingOps => buf = op.read
              /\ \A i \in DOMAIN log :
                    log[i][1] = "delay" => log[i][2] \in {2, 10, 410, 480}

C28_Witness ==
    /\ op.name = "reset_skip_write_read" /\ op.write # <<>> /\ op.read # <<>>
    /\ LineStuck
    /\ result = Err(WireFault) /\ buf = op.read

\* C29: between the search_next calls on a bus that does not change, every
\* set bit i of discrepancies marks a position where bit i of address is 0
\* and a device on the bus agrees with address on the bits below i and
\* has bit i = 1; in state DeviceFound discrepancies is not empty and in
\* state End it is empty.
C29_CursorInvariant ==
    stable =>
        /\ \A i \in 0..(BITS - 1) :
              is_bit_set(cursor.discrepancies, i) =>
                 /\ ~is_bit_set(cursor.address, i)
                 /\ \E d \in bus :
                       /\ is_bit_set(d, i)
                       /\ \A j \in 0..(i - 1) :
                             is_bit_set(d, j) = is_bit_set(cursor.address, j)
        /\ cursor.state = "DeviceFound" => cursor.discrepancies # Zeros
        /\ cursor.state = "End" => cursor.discrepancies = Zeros

\* Bit i of a ROM before bit i of another: the order of ROMs compared bit
\* by bit from bit 0 of byte 0.
BitLess(a, b) ==
    \E i \in 0..(BITS - 1) :
        /\ ~is_bit_set(a, i) /\ is_bit_set(b, i)
        /\ \A j \in 0..(i - 1) : is_bit_set(a, j) = is_bit_set(b, j)

\* The k first devices of a bus in this order.
RECURSIVE FirstOf(_, _)
FirstOf(b, k) ==
    IF k = 0 \/ b = {} THEN <<>>
    ELSE LET least == CHOOSE d \in b : \A e \in b \ {d} : BitLess(d, e)
         IN  <<least>> \o FirstOf(b \ {least}, k - 1)

\* C30: on a bus that does not change, an address search_next returns
\* equals the one returned before it on every bit below the
\* last_discrepancy of the call and has 1 at that bit, where the one before
\* has 0; the addresses returned grow in the order of ROMs compared bit by
\* bit from bit 0, and the sequence returned depends on the devices on the
\* bus only.
C30_Order ==
    (stable /\ Searched) =>
        /\ (IsSome(result) /\ Len(found) > 1) =>
              \A last \in {last_discrepancy(before)} :
              \A prev \in {found[Len(found) - 1]}, this \in {found[Len(found)]} :
                 /\ last # None
                 /\ ~is_bit_set(prev, last) /\ is_bit_set(this, last)
                 /\ \A j \in 0..(last - 1) :
                       is_bit_set(prev, j) = is_bit_set(this, j)
                 /\ BitLess(prev, this)
        /\ found = FirstOf(bus, Len(found))

C30_Witness ==
    /\ stable /\ Searched /\ IsSome(result)
    /\ Len(found) = 4 /\ Cardinality(bus) = 4
    /\ last_discrepancy(before) = 63
    /\ found[2][4] = 154 /\ found[3][1] = 1

=============================================================================
